---- MODULE Spec2Model ----
(***************************************************************************)
(* The planning engine of planning_agent: State (state.py), Tool (tool.py),*)
(* the sample registry (tool_list.py) and the two best-first searches,     *)
(* planner_viz.Planner.astar and planner.planner.astar, with the oracle    *)
(* (call_gpt) as the environment.                                          *)
(*                                                                         *)
(* Numbers.  Costs, g and heuristic values are in tenths (1.2 is 12).      *)
(* Probabilities and priors are in thousandths (0.838 is 838).  A combined *)
(* probability is in units of 1e-9, so that the epsilon floor 1e-9 is 1.   *)
(* An f value is kept exactly, as big * 10^9 + int + num / den tenths.     *)
(***************************************************************************)
EXTENDS Integers, Sequences, FiniteSets, TLC

VARIABLES
    variant,        \* "viz": planner_viz.Planner, "single": planner.planner
    registry,       \* the TOOLS list the planner module sees
    oracle_up,      \* FALSE: every call_gpt call fails and returns its default
    initial_state,  \* astar's argument initial_state
    user_question,  \* astar's argument user_question, a sequence of characters
    open_set,       \* astar's local open_set
    closed,         \* astar's local closed
    node,           \* the node popped last: its g, state and plan (astar
                    \* never reads the f of a popped node)
    tool_candidates,\* propose_tools' result for node
    ti,             \* position of the for loop over tool_candidates
    arg_candidates, \* propose_args' result for the current tool
    probs,          \* planner_viz: predict_success' results for arg_candidates
    ai,             \* planner: position of the for loop over arg_candidates
    best,           \* <<>> (None) or <<the best candidate found so far>>
    pc,             \* "loop" | "rank" | "args" | "prob" | "eval" (planner_viz:
                    \* probs is complete) | "done" | "raised"
    result,         \* the plan astar returned (pc = "done")
    exc,            \* the exception astar raised (pc = "raised")
    pops,           \* number of heappop calls
    oracle_called,  \* call_gpt has been called
    log_kept,       \* TRUE: steps follows Planner.logger.steps; FALSE: the
                    \* log, which astar writes and never reads, is left out
    steps,          \* Planner.logger.steps: per entry the step, the names of
                    \* the tools logged, the choice and the executed mark
    runs,           \* the caller: which call of astar this is (1 or 2)
    prev_result,    \* the caller: <<>> or <<the plan the first call returned>>
    cur,            \* which of two astar invocations is running (1 or 2)
    other,          \* <<>>, or <<the locals of the astar invocation that
                    \* is suspended at an oracle call>>
    heap,           \* the State objects a caller and an Executor share:
                    \* object id -> field values
    ex_state,       \* Executor.state: the id of the object it refers to
    history,        \* Executor.history
    ex_plan,        \* run_plan's argument plan
    ex_idx,         \* run_plan's idx: the step run next (1-based); in
                    \* Planner.main the number of plan steps executed
    ex_pc,          \* "idle" | "run" | "main" (Planner.main) | "done" | "raised"
    ex_exc,         \* the exception run_plan let through (ex_pc = "raised")
    events,         \* backend.execute_generator: the events it has yielded
    be_pc,          \* "idle" | "plan" (in p.astar) | "loop" | "done" | "raised"
    use_plan_hint,  \* AgentExecutor.use_plan_hint
    llm,            \* AgentExecutor.llm: "dummy" (DummyLLM) or "any" (a model
                    \* that may answer anything)
    max_steps,      \* AgentExecutor.max_steps
    ag_state,       \* run's local state: the fields of the one State object
    ag_idx,         \* run's step_idx
    ag_pc,          \* "idle" | "plan" (in p.astar) | "loop" | "done"
    trace,          \* AgentExecutor.trace
    call,           \* one call of a helper on its own: the helper and its inputs
    ret             \* that call's outcome, <<>> before it returns

agentVars == <<use_plan_hint, llm, max_steps, ag_state, ag_idx, ag_pc, trace>>

clientVars == <<events, be_pc, agentVars>>

callerVars == <<runs, prev_result, cur, other, clientVars>>

executorVars == <<heap, ex_state, history, ex_plan, ex_idx, ex_pc, ex_exc>>

callVars == <<call, ret>>

searchVars ==
    <<variant, registry, oracle_up, initial_state, user_question, open_set,
      closed, node, tool_candidates, ti, arg_candidates, probs, ai, best,
      pc, result, exc, pops, oracle_called, log_kept, steps>>

vars == <<searchVars, callerVars, executorVars, callVars>>

----------------------------------------------------------------------------
(* Values *)

\* Python's None, as a field or argument value
None == "None"

\* a value hash() rejects (a list, a dict), as an argument the oracle proposed
Unhashable == "[list]"

\* bool(v) of a field value: None and the empty string are falsy
Truthy(v) == v \notin {None, ""}

Max(a, b) == IF a >= b THEN a ELSE b

Min(a, b) == IF a <= b THEN a ELSE b

\* F(v) with v evaluated once, however often F reads it
With(v, F(_)) == CHOOSE r \in {F(x) : x \in {v}} : TRUE

\* s[:n]
Take(s, n) == SubSeq(s, 1, Min(n, Len(s)))

\* s[n:] (0-based n)
Drop(s, n) == SubSeq(s, n + 1, Len(s))

----------------------------------------------------------------------------
(* state.py *)

State(o, d, t, c) ==
    [origin |-> o, destination |-> d, transport |-> t, booking_confirmed |-> c]

is_goal(s) == s.booking_confirmed

\* State.__hash__ hashes the tuple of the four fields: it raises TypeError
\* when a field holds an unhashable value
HashRaises(s) ==
    Unhashable \in {s.origin, s.destination, s.transport}

\* the generated __eq__ that misses the last field
StateEqThreeFields(s1, s2) ==
    <<s1.origin, s1.destination, s1.transport>>
        = <<s2.origin, s2.destination, s2.transport>>

\* the dataclass-generated State.__eq__: the tuples of the fields are equal
StateEq(s1, s2) ==
    <<s1.origin, s1.destination, s1.transport, s1.booking_confirmed>>
        = <<s2.origin, s2.destination, s2.transport, s2.booking_confirmed>>

\* hash() of a tuple: an order-sensitive mix of the hashes of its elements,
\* kept to 8 bits
RECURSIVE TupleHash(_, _)
TupleHash(hs, acc) ==
    IF hs = <<>> THEN acc
    ELSE TupleHash(Tail(hs), (acc * 31 + Head(hs)) % 256)

\* State.__hash__: hash((origin, destination, transport, booking_confirmed)).
\* seed gives hash() of None and of each string in this process (string
\* hashes are salted per process); hash(True) = 1, hash(False) = 0
StateHash(s, seed) ==
    IF HashRaises(s) THEN "TypeError"
    ELSE TupleHash(<<seed[s.origin], seed[s.destination], seed[s.transport],
                     IF s.booking_confirmed THEN 1 ELSE 0>>, 7)

\* "s in closed" for a set of States: an element with the hash of s that
\* equals s
Contains(set, s, seed) ==
    \E c \in set : StateHash(c, seed) = StateHash(s, seed) /\ StateEq(c, s)

\* State(**asdict(node.state)): a new State with the same field values
CopyState(s) == State(s.origin, s.destination, s.transport, s.booking_confirmed)

----------------------------------------------------------------------------
(* tool_list.py, tool.py *)

TOOLS == <<"set_origin", "set_destination", "select_transport", "confirm_booking">>

cost(t) ==
    CASE t = "set_origin" -> 10
      [] t = "set_destination" -> 10
      [] t = "select_transport" -> 12
      [] t = "confirm_booking" -> 20

arg_names(t) ==
    CASE t = "set_origin" -> <<"city">>
      [] t = "set_destination" -> <<"city">>
      [] t = "select_transport" -> <<"mode">>
      [] t = "confirm_booking" -> <<>>

\* preconditions that do not order set_destination after set_origin
preconditionUnordered(t, s) ==
    CASE t = "set_origin" -> s.origin = None
      [] t = "set_destination" -> s.destination = None
      [] t = "select_transport" -> s.destination # None /\ s.transport = None
      [] t = "confirm_booking" -> s.transport # None /\ ~s.booking_confirmed

\* preconditions where set_destination tests the origin by its truth value
preconditionTruthy(t, s) ==
    CASE t = "set_origin" -> s.origin = None
      [] t = "set_destination" -> Truthy(s.origin) /\ s.destination = None
      [] t = "select_transport" -> s.destination # None /\ s.transport = None
      [] t = "confirm_booking" -> s.transport # None /\ ~s.booking_confirmed

precondition(t, s) ==
    CASE t = "set_origin" -> s.origin = None
      [] t = "set_destination" -> s.origin # None /\ s.destination = None
      [] t = "select_transport" -> s.destination # None /\ s.transport = None
      [] t = "confirm_booking" -> s.transport # None /\ ~s.booking_confirmed

\* the effect lambdas read args[0]: IndexError on an empty tuple
EffectRaises(t, args) == t # "confirm_booking" /\ Len(args) = 0

\* effects where setting the destination clears the origin
effectClearsOrigin(t, s, args) ==
    CASE t = "set_origin" -> [s EXCEPT !.origin = args[1]]
      [] t = "set_destination" -> [s EXCEPT !.destination = args[1], !.origin = None]
      [] t = "select_transport" -> [s EXCEPT !.transport = args[1]]
      [] t = "confirm_booking" -> [s EXCEPT !.booking_confirmed = TRUE]

effect(t, s, args) ==
    CASE t = "set_origin" -> [s EXCEPT !.origin = args[1]]
      [] t = "set_destination" -> [s EXCEPT !.destination = args[1]]
      [] t = "select_transport" -> [s EXCEPT !.transport = args[1]]
      [] t = "confirm_booking" -> [s EXCEPT !.booking_confirmed = TRUE]

\* Tool.__call__ raises: ValueError when the precondition fails, else
\* whatever the effect raises
CallRaises(t, s, args) == ~precondition(t, s) \/ EffectRaises(t, args)

\* Tool.__call__ when it does not raise: the state after the effect
Call(t, s, args) == effect(t, s, args)

----------------------------------------------------------------------------
(* Exact arithmetic for f = g + heuristic / combined_p *)

GCD(a, b) ==
    LET gcd[x \in Nat, y \in Nat] == IF y = 0 THEN x ELSE gcd[y, x % y]
    IN gcd[a, b]

\* the number big * 10^9 + int + num / den (tenths), 0 <= num < den, lowest terms
Num(big, int, num, den) ==
    LET d == GCD(den, num)
    IN [big |-> big, int |-> int, num |-> num \div d, den |-> den \div d]

FromTenths(x) == Num(0, x, 0, 1)

\* a / b < c / d for a, c >= 0 and b, d > 0, by continued fractions (no product
\* that could exceed the integer range)
RatLess(a, b, c, d) ==
    LET less[p \in Nat, q \in Nat, r \in Nat, s \in Nat] ==
            IF p \div q # r \div s THEN p \div q < r \div s
            ELSE IF r % s = 0 THEN FALSE
            ELSE IF p % q = 0 THEN TRUE
            ELSE less[s, r % s, q, p % q]
    IN less[a, b, c, d]

\* x < y; int + num / den stays far below 10^9 in absolute value
Less(x, y) ==
    \/ x.big < y.big
    \/ x.big = y.big /\ x.int < y.int
    \/ x.big = y.big /\ x.int = y.int /\ RatLess(x.num, x.den, y.num, y.den)

\* h / cp: h in tenths, cp # 0 in units of 1e-9, which is either the floor
\* 1e-9 itself (cp = 1) or a product of two thousandths (a multiple of 1000)
Quotient(h, cp) ==
    IF cp % 1000 # 0
    THEN Num(h \div cp, 0, 0, 1)
    ELSE LET n == cp \div 1000
             m == h * 1000000
         IN IF n > 0 THEN Num(0, m \div n, m % n, n)
            ELSE Num(0, (0 - m) \div (0 - n), (0 - m) % (0 - n), 0 - n)

\* g + q for g in tenths
Plus(g, q) == [q EXCEPT !.int = @ + g]

----------------------------------------------------------------------------
\* CITY_RE, a capitalised word followed by any number of groups of one
\* whitespace character and a capitalised word, and CITY_RE.findall

IsUpper(c) ==
    c \in {"A", "B", "C", "D", "E", "F", "G", "H", "I", "J", "K", "L", "M",
           "N", "O", "P", "Q", "R", "S", "T", "U", "V", "W", "X", "Y", "Z"}

IsLower(c) ==
    c \in {"a", "b", "c", "d", "e", "f", "g", "h", "i", "j", "k", "l", "m",
           "n", "o", "p", "q", "r", "s", "t", "u", "v", "w", "x", "y", "z"}

IsSpace(c) == c \in {" ", "\t", "\n"}

\* the position after the longest run of [a-z] that starts at i
RECURSIVE LowerRun(_, _)
LowerRun(txt, i) ==
    IF i <= Len(txt) /\ IsLower(txt[i]) THEN LowerRun(txt, i + 1) ELSE i

\* the position after a match of [A-Z][a-z]+ at i, or 0 when there is none
WordEnd(txt, i) ==
    IF i + 1 <= Len(txt) /\ IsUpper(txt[i]) /\ IsLower(txt[i + 1])
    THEN LowerRun(txt, i + 1)
    ELSE 0

\* the position after the greedy repetition, from j, of the group of one
\* whitespace character and a capitalised word
RECURSIVE PhraseEnd(_, _)
PhraseEnd(txt, j) ==
    IF j <= Len(txt) /\ IsSpace(txt[j]) /\ WordEnd(txt, j + 1) # 0
    THEN PhraseEnd(txt, WordEnd(txt, j + 1))
    ELSE j

\* the characters of a match, as one string
RECURSIVE Join(_)
Join(cs) == IF cs = <<>> THEN "" ELSE Head(cs) \o Join(Tail(cs))

\* CITY_RE.findall(txt): the non-overlapping matches, left to right;
\* FindAllFrom[i] is the list of those that start at position i or later
findall(txt) ==
    LET FindAllFrom[i \in 1..(Len(txt) + 1)] ==
            IF i > Len(txt) THEN <<>>
            ELSE IF WordEnd(txt, i) = 0 THEN FindAllFrom[i + 1]
            ELSE With(PhraseEnd(txt, WordEnd(txt, i)), LAMBDA e :
                     With(SubSeq(txt, i, e - 1), LAMBDA match :
                         <<Join(match)>> \o FindAllFrom[e]))
    IN FindAllFrom[1]

\* [c for c in cities if not (c in seen or seen.add(c))]: first occurrences, in order
RECURSIVE Dedup(_, _)
Dedup(cs, seen) ==
    IF cs = <<>> THEN <<>>
    ELSE IF Head(cs) \in seen THEN Dedup(Tail(cs), seen)
    ELSE <<Head(cs)>> \o Dedup(Tail(cs), seen \cup {Head(cs)})

----------------------------------------------------------------------------
(* The oracle: what call_gpt can return to each of its three callers *)

Item(n, v) == [ok |-> TRUE, name |-> n, p |-> v]

\* an element the loop body of propose_tools raises on (not an object, or a
\* "p" that float() rejects)
BadItem == [ok |-> FALSE, name |-> "", p |-> 0]

\* The JSON lists the ranking oracle returns: one entry (any tool or an
\* unknown name; p below, inside and above [0, 1]), two entries (two tools
\* in both orders), an entry the parser raises on after a good one, and one
\* tool named four times, more than top_k
RankLists ==
    {<<>>, <<BadItem>>}
    \cup {<<Item(n, v)>> :
            n \in {"set_origin", "set_destination", "select_transport",
                   "confirm_booking", "unknown_tool"},
            v \in {0 - 500, 500, 1500}}
    \cup {<<Item(n, 1000), Item(m, 500)>> :
            n \in {"set_origin", "set_destination"},
            m \in {"select_transport", "confirm_booking"}}
    \cup {<<Item(m, 1000), Item(n, 500)>> :
            n \in {"set_origin", "set_destination"},
            m \in {"select_transport", "confirm_booking"}}
    \cup {<<Item(n, 500), BadItem>> : n \in {"set_origin", "confirm_booking"}}
    \cup {<<Item(n, 500), Item(n, 0), Item(n, 500), Item(n, 1000)>> :
            n \in {"set_origin", "confirm_booking"}}

\* kind "error": the call failed and call_gpt returned default = "error";
\* "malformed": text json.loads rejects; "notlist": JSON that is no list;
\* "list": a JSON list
RankReplies ==
    IF ~oracle_up THEN {[kind |-> "error", data |-> <<>>]}
    ELSE {[kind |-> k, data |-> <<>>] : k \in {"error", "malformed", "notlist"}}
         \cup {[kind |-> "list", data |-> d] : d \in RankLists}

Tup(e) == [iter |-> TRUE, elems |-> e]

\* an element tuple() rejects (a number, null)
NotIterable == [iter |-> FALSE, elems |-> <<>>]

\* The lists the argument oracle returns: empty, one tuple (of arity 0, of
\* arity 1 with a string, with null, with a nested list), an element that
\* is no tuple, two tuples, and four tuples, more than propose_args keeps
ArgLists ==
    {<<>>, <<NotIterable>>, <<Tup(<<"Paris">>), NotIterable>>}
    \cup {<<Tup(e)>> : e \in {<<>>, <<None>>, <<"Paris">>, <<Unhashable>>}}
    \cup {<<Tup(<<None>>), Tup(<<"Paris">>)>>, <<Tup(<<>>), Tup(<<"Paris">>)>>}
    \cup {<<Tup(<<"Paris">>), Tup(<<"Paris">>), Tup(<<"Paris">>), Tup(<<"Rome">>)>>}

\* kind "error": the call failed; "invalid": eval raised or gave no list;
\* "list": eval gave a list
ArgReplies ==
    IF ~oracle_up THEN {[kind |-> "error", items |-> <<>>]}
    ELSE {[kind |-> k, items |-> <<>>] : k \in {"error", "invalid"}}
         \cup {[kind |-> "list", items |-> d] : d \in ArgLists}

\* kind "error": the call failed; "text": text float() rejects;
\* "number": text float() accepts, with its value in thousandths
PredictReplies ==
    IF ~oracle_up THEN {[kind |-> "error", value |-> 0]}
    ELSE {[kind |-> k, value |-> 0] : k \in {"error", "text"}}
         \cup {[kind |-> "number", value |-> v] : v \in {0, 2000}}

\* the values random.uniform(0.4, 0.9) is drawn from, in thousandths
UniformDraws == {400, 900}

----------------------------------------------------------------------------
(* planner_viz.py: Planner's helpers (planner.py has the same propose_args, *)
(* predict_success and heuristic)                                          *)

\* predict_success that answers 0 when the oracle gives no number
predict_successZero(reply, draw) ==
    IF reply.kind = "number" THEN reply.value ELSE 0

predict_success(reply, draw) ==
    IF reply.kind = "number" THEN reply.value ELSE draw

TRANSPORT_MODES == <<"train", "flight", "bus">>

\* the candidates after the try block of propose_args
EvalArgs(reply) ==
    IF reply.kind = "list" /\ \A i \in 1..Len(reply.items) : reply.items[i].iter
    THEN [i \in 1..Len(reply.items) |-> reply.items[i].elems]
    ELSE <<>>

\* [(c,) for c in cs]
Tuples(cs) == [i \in 1..Len(cs) |-> <<cs[i]>>]

\* the branch "if not candidates" of propose_args
FallbackArgs(tool, txt) ==
    With(With(findall(txt), LAMBDA found : Dedup(found, {})), LAMBDA cities :
        CASE tool = "set_origin" ->
               IF Take(cities, 3) # <<>> THEN Tuples(Take(cities, 3))
               ELSE <<<<"New York">>>>
          [] tool = "set_destination" ->
               IF Take(Drop(cities, 1), 3) # <<>> THEN Tuples(Take(Drop(cities, 1), 3))
               ELSE <<<<"Boston">>>>
          [] tool = "select_transport" -> Tuples(TRANSPORT_MODES)
          [] OTHER -> <<<<>>>>)

\* propose_args without its slice [:3]
propose_argsNoLimit(tool, txt, reply) ==
    IF EvalArgs(reply) = <<>> THEN FallbackArgs(tool, txt) ELSE EvalArgs(reply)

\* propose_args without its branch "if not candidates"
propose_argsNoFallback(tool, txt, reply) == Take(EvalArgs(reply), 3)

propose_args(tool, txt, reply) ==
    LET candidates == EvalArgs(reply)
    IN Take(IF candidates = <<>> THEN FallbackArgs(tool, txt) ELSE candidates, 3)

\* [t for t in TOOLS if t.precondition(state)]
Applicable(s) == SelectSeq(registry, LAMBDA t : precondition(t, s))

\* propose_tools without its early return
EarlyReturnNever(s) == FALSE

\* "if not candidates: return []": propose_tools returns before it calls the oracle
EarlyReturn(s) == Applicable(s) = <<>>

InSeq(x, s) == \E i \in 1..Len(s) : s[i] = x

\* the prior as the oracle gave it
ClampNone(p) == p

\* max(0.0, min(1.0, p))
Clamp(p) == Max(0, Min(1000, p))

\* ranked after the try block of propose_tools: empty unless the reply is a
\* list whose elements all parse; then the entries that name a candidate
RECURSIVE RankedOf(_, _)
RankedOf(data, candidates) ==
    IF data = <<>> THEN <<>>
    ELSE IF InSeq(Head(data).name, candidates)
         THEN <<<<Head(data).name, Clamp(Head(data).p)>>>> \o RankedOf(Tail(data), candidates)
         ELSE RankedOf(Tail(data), candidates)

ParseRanked(reply, candidates) ==
    IF reply.kind = "list" /\ \A i \in 1..Len(reply.data) : reply.data[i].ok
    THEN RankedOf(reply.data, candidates)
    ELSE <<>>

\* heuristic_rank, the fallback score of propose_tools (0.01 * cost is one
\* thousandth per tenth of cost)
heuristic_rank(t, s) ==
    (IF t = "confirm_booking" /\ Truthy(s.transport) /\ Truthy(s.origin)
           /\ Truthy(s.destination) THEN 950
     ELSE IF t = "select_transport" /\ Truthy(s.origin) /\ Truthy(s.destination)
           /\ ~Truthy(s.transport) THEN 850
     ELSE IF t = "set_destination" /\ Truthy(s.origin) /\ ~Truthy(s.destination) THEN 750
     ELSE IF t = "set_origin" /\ ~Truthy(s.origin) THEN 700
     ELSE 500) - cost(t)

\* sorted(pairs, key=lambda x: x[1], reverse=True): stable, descending
RECURSIVE InsertDesc(_, _)
InsertDesc(x, sorted) ==
    IF sorted = <<>> THEN <<x>>
    ELSE IF Head(sorted)[2] >= x[2] THEN <<Head(sorted)>> \o InsertDesc(x, Tail(sorted))
    ELSE <<x>> \o sorted

RECURSIVE SortDesc(_)
SortDesc(pairs) ==
    IF pairs = <<>> THEN <<>>
    ELSE InsertDesc(pairs[Len(pairs)], SortDesc(SubSeq(pairs, 1, Len(pairs) - 1)))

\* the fallback ranking sorted without reverse=True
FallbackRankedAscending(s, candidates) ==
    LET r == SortDesc([i \in 1..Len(candidates) |->
                          <<candidates[i], heuristic_rank(candidates[i], s)>>])
    IN [i \in 1..Len(r) |-> r[Len(r) + 1 - i]]

\* the fallback ranking of planner_viz.propose_tools
FallbackRanked(s, candidates) ==
    SortDesc([i \in 1..Len(candidates) |-> <<candidates[i], heuristic_rank(candidates[i], s)>>])

\* planner_viz.Planner.propose_tools once call_gpt has returned reply
propose_tools(s, reply, top_k) ==
    LET candidates == Applicable(s)
        ranked == ParseRanked(reply, candidates)
    IN Take(IF ranked = <<>> THEN FallbackRanked(s, candidates) ELSE ranked, top_k)

RECURSIVE MinOf(_)
MinOf(xs) == IF Len(xs) = 1 THEN xs[1] ELSE Min(Head(xs), MinOf(Tail(xs)))

\* heuristic without its test of booking_confirmed
heuristicNoGoalTest(s) ==
    LET remaining_costs == [i \in 1..Len(Applicable(s)) |-> cost(Applicable(s)[i])]
    IN IF remaining_costs # <<>> THEN MinOf(remaining_costs) ELSE 0

heuristic(s) ==
    IF s.booking_confirmed THEN 0
    ELSE LET remaining_costs == [i \in 1..Len(Applicable(s)) |-> cost(Applicable(s)[i])]
         IN IF remaining_costs # <<>> THEN MinOf(remaining_costs) ELSE 0

----------------------------------------------------------------------------
(* planner_viz.py: Planner.astar *)

\* the epsilon floor of combined_p, 1e-9
EPSILON == 1

\* top_k of the propose_tools call
TOP_K == 3

Node(f, g, state, plan) == [f |-> f, g |-> g, state |-> state, plan |-> plan]

\* the fields of a popped node that astar reads
Popped(n) == [g |-> n.g, state |-> n.state, plan |-> n.plan]

\* the node variable before the first pop
NoNode == [g |-> 0, state |-> State(None, None, None, FALSE), plan |-> <<>>]

\* heapq.heappop takes a node with the least f: the first of them here
PopIndex(open) ==
    CHOOSE k \in 1..Len(open) :
        /\ \A j \in 1..Len(open) : ~Less(open[j].f, open[k].f)
        /\ \A j \in 1..(k - 1) : Less(open[k].f, open[j].f)

Remove(s, k) == SubSeq(s, 1, k - 1) \o SubSeq(s, k + 1, Len(s))

\* a plan that forgets node.plan: with it a returned plan is only its last step
NewPlanLastStep(plan, tool, args) == <<<<tool, args>>>>

\* node.plan + [(tool, args)]
NewPlan(plan, tool, args) == Append(plan, <<tool, args>>)

\* the product without max(1e-9, ...)
combined_pNoFloor(prob, tool_prior) == prob * tool_prior * 1000

\* max(1e-9, prob * tool_prior)
combined_p(prob, tool_prior) == Max(EPSILON, prob * tool_prior * 1000)

\* a candidate whose g_new leaves out the cost of its tool
CandidateFreeStep(nd, tool, args, prob, cp) ==
    LET sim_state == Call(tool, CopyState(nd.state), args)
        g_new == nd.g
        h_new == Quotient(heuristic(sim_state), cp)
    IN [f_new |-> Plus(g_new, h_new), g_new |-> g_new, sim_state |-> sim_state,
        new_plan |-> NewPlan(nd.plan, tool, args), tool |-> tool, args |-> args,
        prob |-> prob, combined_p |-> cp]

\* the tuple (f_new, g_new, sim_state, new_plan, tool, args, prob, combined_p)
\* of one candidate whose simulation did not raise
Candidate(nd, tool, args, prob, cp) ==
    LET sim_state == Call(tool, CopyState(nd.state), args)
        g_new == nd.g + cost(tool)
        h_new == Quotient(heuristic(sim_state), cp)
    IN [f_new |-> Plus(g_new, h_new), g_new |-> g_new, sim_state |-> sim_state,
        new_plan |-> NewPlan(nd.plan, tool, args), tool |-> tool, args |-> args,
        prob |-> prob, combined_p |-> cp]

\* best is None or f_new < best[0]
Better(c, b) == b = <<>> \/ Less(c.f_new, b[1].f_new)

\* the loop "for args, prob in zip(arg_candidates, probs)" from position i on
RECURSIVE EvalCandidates(_, _, _, _, _, _, _)
EvalCandidates(nd, tool, tool_prior, cands, ps, i, b) ==
    IF i > Min(Len(cands), Len(ps)) THEN b
    ELSE IF CallRaises(tool, CopyState(nd.state), cands[i])
         THEN EvalCandidates(nd, tool, tool_prior, cands, ps, i + 1, b)
         ELSE With(Candidate(nd, tool, cands[i], ps[i], combined_p(ps[i], tool_prior)),
                   LAMBDA c : With(IF Better(c, b) THEN <<c>> ELSE b,
                       LAMBDA b1 : EvalCandidates(nd, tool, tool_prior, cands, ps, i + 1, b1)))

\* the first position from k on of a ranked tool whose precondition holds on
\* node.state ("if not tool.precondition(node.state): continue")
RECURSIVE NextTool(_, _, _)
NextTool(cands, s, k) ==
    IF k > Len(cands) \/ precondition(cands[k][1], s) THEN k
    ELSE NextTool(cands, s, k + 1)

\* a push of the best successor and of a second node for it
PushedTwice(open, b) ==
    IF b = <<>> THEN open
    ELSE open \o << Node(b[1].f_new, b[1].g_new, b[1].sim_state, b[1].new_plan),
                    Node(b[1].f_new, b[1].g_new, b[1].sim_state, b[1].new_plan) >>

\* heapq.heappush(open_set, Node(f_new, g_new, new_state, new_plan)) unless
\* best is None
Pushed(open, b) ==
    IF b = <<>> THEN open
    ELSE Append(open, Node(b[1].f_new, b[1].g_new, b[1].sim_state, b[1].new_plan))

\* a closed test that never finds the state
StaleNever(s, cl) == FALSE

\* "if node.state in closed": the state, which hash() accepts, equals a
\* member of closed
Stale(s, cl) == s \in cl

\* One pass of "while open_set" up to the call_gpt call of propose_tools:
\* pop, the closed test, the goal test, and propose_tools' early return
\* a step index that counts the entries from one
StepIndexFromOne(nd) == Len(nd.plan) + 1

\* step_idx = len(node.plan)
StepIndex(nd) == Len(nd.plan)

\* VisualLogger.begin_step(step)
begin_step(lg, step) ==
    IF log_kept
    THEN Append(lg, [step |-> step, tools |-> <<>>, chosen |-> <<>>, executed |-> FALSE])
    ELSE lg

\* "s = self.steps[step]" raises IndexError: there is no such entry
NoEntry(lg, step) == log_kept /\ step + 1 > Len(lg)

\* VisualLogger.log_tool(step, tool_name, ...), when the entry exists; the
\* prior and the candidates with their probabilities, numbers that nothing
\* reads back, are left out
log_tool(lg, step, tool_name) ==
    IF log_kept THEN [lg EXCEPT ![step + 1].tools = Append(@, tool_name)] ELSE lg

\* VisualLogger.set_choice(step, tool_name, chosen_args, ...), when the
\* entry exists; pred_prob and combined_p are left out
set_choice(lg, step, tool_name, chosen_args) ==
    IF log_kept
    THEN [lg EXCEPT ![step + 1].chosen = <<[tool |-> tool_name, args |-> chosen_args]>>]
    ELSE lg

\* VisualLogger.mark_executed(step), when the entry exists
mark_executed(lg, step) == [lg EXCEPT ![step + 1].executed = TRUE]

Pop ==
    /\ variant = "viz"
    /\ pc = "loop"
    /\ UNCHANGED <<callerVars, executorVars, callVars, steps, variant, registry, oracle_up, log_kept,
                   initial_state, user_question,
                   tool_candidates, ti, arg_candidates, probs, ai, best, oracle_called>>
    /\ IF open_set = <<>>
       THEN /\ pc' = "raised"
            /\ exc' = "RuntimeError: No plan found"
            /\ UNCHANGED <<open_set, closed, node, result, pops>>
       ELSE LET k == PopIndex(open_set)
                n == open_set[k]
            IN /\ open_set' = Remove(open_set, k)
               /\ node' = Popped(n)
               /\ pops' = pops + 1
               /\ IF HashRaises(n.state)
                  THEN /\ pc' = "raised"
                       /\ exc' = "TypeError: unhashable type"
                       /\ UNCHANGED <<closed, result>>
                  ELSE IF Stale(n.state, closed)
                  THEN UNCHANGED <<pc, exc, closed, result>>
                  ELSE /\ closed' = closed \cup {n.state}
                       /\ exc' = exc
                       /\ IF is_goal(n.state)
                          THEN pc' = "done" /\ result' = n.plan
                          ELSE /\ result' = result
                               /\ pc' = IF EarlyReturn(n.state) THEN "loop"
                                        ELSE "rank"

\* propose_tools from its call_gpt call on, and the start of the loop over
\* the ranked tools
RankTools ==
    /\ variant = "viz"
    /\ pc = "rank"
    /\ \E ranked \in {propose_tools(node.state, reply, TOP_K) : reply \in RankReplies} :
        LET k == NextTool(ranked, node.state, 1)
        IN /\ oracle_called' = TRUE
           /\ steps' = IF ranked = <<>> THEN steps
                       ELSE begin_step(steps, StepIndex(node))
           /\ IF ranked = <<>> \/ k > Len(ranked)
              THEN /\ pc' = "loop"
                   /\ UNCHANGED <<tool_candidates, ti>>
              ELSE /\ pc' = "args"
                   /\ tool_candidates' = ranked
                   /\ ti' = k
    /\ UNCHANGED <<callerVars, executorVars, callVars, variant, registry, oracle_up, log_kept,
                   initial_state, user_question,
                   open_set, closed, node, arg_candidates, probs, ai, best,
                   result, exc, pops>>

\* a candidate of the zip loop whose simulation succeeds has combined_p = 0:
\* "heuristic(sim_state) / combined_p" raises ZeroDivisionError
EvalRaises(nd, tool, tool_prior, cands, ps) ==
    \E i \in 1..Min(Len(cands), Len(ps)) :
        /\ ~CallRaises(tool, CopyState(nd.state), cands[i])
        /\ combined_p(ps[i], tool_prior) = 0

\* a best that is forgotten when the loop goes on to the next ranked tool
AfterToolPerTool(b, lg) ==
    LET k == NextTool(tool_candidates, node.state, ti + 1)
    IN IF k <= Len(tool_candidates)
       THEN /\ pc' = "args"
            /\ ti' = k
            /\ best' = <<>>
            /\ probs' = <<>>
            /\ arg_candidates' = <<>>
            /\ steps' = lg
            /\ UNCHANGED <<open_set, tool_candidates>>
       ELSE /\ pc' = "loop"
            /\ steps' = IF b = <<>> THEN lg
                        ELSE set_choice(lg, StepIndex(node), b[1].tool, b[1].args)
            /\ open_set' = Pushed(open_set, b)
            /\ ti' = 0
            /\ best' = <<>>
            /\ probs' = <<>>
            /\ arg_candidates' = <<>>
            /\ tool_candidates' = <<>>

\* After the candidates of the current tool, with b the best so far and lg
\* the log: the next ranked tool, or the end of the expansion ("if best is
\* None: continue", else set_choice and the push of the best successor)
AfterTool(b, lg) ==
    LET k == NextTool(tool_candidates, node.state, ti + 1)
    IN IF k <= Len(tool_candidates)
       THEN /\ pc' = "args"
            /\ ti' = k
            /\ best' = b
            /\ probs' = <<>>
            /\ arg_candidates' = <<>>
            /\ steps' = lg
            /\ UNCHANGED <<open_set, tool_candidates>>
       ELSE /\ pc' = "loop"
            /\ steps' = IF b = <<>> THEN lg
                        ELSE set_choice(lg, StepIndex(node), b[1].tool, b[1].args)
            /\ open_set' = Pushed(open_set, b)
            /\ ti' = 0
            /\ best' = <<>>
            /\ probs' = <<>>
            /\ arg_candidates' = <<>>
            /\ tool_candidates' = <<>>

\* propose_args for the current tool; with no candidate there is no
\* predict_success call and nothing to evaluate
ProposeArgs ==
    /\ variant = "viz"
    /\ pc = "args"
    /\ \E cands \in {propose_args(tool_candidates[ti][1], user_question, reply) :
                        reply \in ArgReplies} :
        /\ oracle_called' = TRUE
        /\ IF cands = <<>>
           THEN IF NoEntry(steps, StepIndex(node))
                THEN /\ pc' = "raised"
                     /\ exc' = "IndexError: list index out of range"
                     /\ UNCHANGED <<open_set, tool_candidates, ti, best,
                                    arg_candidates, probs, steps>>
                ELSE /\ exc' = exc
                     /\ AfterTool(best, log_tool(steps, StepIndex(node),
                                                 tool_candidates[ti][1]))
           ELSE /\ arg_candidates' = cands
                /\ probs' = <<>>
                /\ pc' = "prob"
                /\ UNCHANGED <<open_set, tool_candidates, ti, best, exc, steps>>
    /\ UNCHANGED <<callerVars, executorVars, callVars, variant, registry, oracle_up, log_kept,
                   initial_state, user_question,
                   closed, node, ai, result, pops>>

\* One predict_success call of "probs = [self.predict_success(...) for a in
\* arg_candidates]"
PredictSuccess ==
    /\ variant = "viz"
    /\ pc = "prob"
    /\ \E prob \in {predict_success(reply, draw) :
                       reply \in PredictReplies, draw \in UniformDraws} :
        /\ probs' = Append(probs, prob)
        /\ pc' = IF Len(probs) + 1 < Len(arg_candidates) THEN "prob" ELSE "eval"
    /\ oracle_called' = TRUE
    /\ UNCHANGED <<callerVars, executorVars, callVars, steps, variant, registry, oracle_up, log_kept,
                   initial_state, user_question,
                   open_set, closed, node, tool_candidates, ti, arg_candidates,
                   ai, best, result, exc, pops>>

\* logger.log_tool and the loop "for args, prob in zip(arg_candidates,
\* probs)" for the current tool, then the next ranked tool or the end of
\* the expansion
Evaluate ==
    /\ variant = "viz"
    /\ pc = "eval"
    /\ LET tool == tool_candidates[ti][1]
           tool_prior == tool_candidates[ti][2]
           logged == log_tool(steps, StepIndex(node), tool)
       IN IF NoEntry(steps, StepIndex(node))
          THEN /\ pc' = "raised"
               /\ exc' = "IndexError: list index out of range"
               /\ UNCHANGED <<ti, best, open_set, tool_candidates, arg_candidates,
                              probs, steps>>
          ELSE IF EvalRaises(node, tool, tool_prior, arg_candidates, probs)
          THEN /\ pc' = "raised"
               /\ exc' = "ZeroDivisionError: float division by zero"
               /\ steps' = logged
               /\ UNCHANGED <<ti, best, open_set, tool_candidates, arg_candidates,
                              probs>>
          ELSE /\ exc' = exc
               /\ AfterTool(EvalCandidates(node, tool, tool_prior,
                                           arg_candidates, probs, 1, best),
                            logged)
    /\ UNCHANGED <<callerVars, executorVars, callVars, variant, registry, oracle_up, log_kept,
                   initial_state, user_question,
                   closed, node, ai, result, pops, oracle_called>>

----------------------------------------------------------------------------
(* planner.py: planner.propose_tools and planner.astar *)

\* planner.propose_tools once call_gpt has returned reply: no fallback ranking
p_propose_tools(s, reply, top_k) ==
    Take(ParseRanked(reply, Applicable(s)), top_k)

\* combined_p = prob * tool_prior, without a floor
p_combined_p(prob, tool_prior) == prob * tool_prior * 1000

\* the first position from k on of a candidate whose simulation does not
\* raise ("except Exception: continue")
RECURSIVE NextArg(_, _, _, _)
NextArg(tool, s, cands, k) ==
    IF k > Len(cands) \/ ~CallRaises(tool, CopyState(s), cands[k]) THEN k
    ELSE NextArg(tool, s, cands, k + 1)

\* One pass of "while open_set" up to the call_gpt call of propose_tools.
\* When no tool is applicable propose_tools returns [] and the line
\* print("Tool Choosed is:", tool_candidates[0]) raises IndexError
PPop ==
    /\ variant = "single"
    /\ pc = "loop"
    /\ UNCHANGED <<callerVars, executorVars, callVars, steps, variant, registry, oracle_up, log_kept,
                   initial_state, user_question,
                   tool_candidates, ti, arg_candidates, probs, ai, best, oracle_called>>
    /\ IF open_set = <<>>
       THEN /\ pc' = "raised"
            /\ exc' = "RuntimeError: No plan found"
            /\ UNCHANGED <<open_set, closed, node, result, pops>>
       ELSE LET k == PopIndex(open_set)
                n == open_set[k]
            IN /\ open_set' = Remove(open_set, k)
               /\ node' = Popped(n)
               /\ pops' = pops + 1
               /\ IF HashRaises(n.state)
                  THEN /\ pc' = "raised"
                       /\ exc' = "TypeError: unhashable type"
                       /\ UNCHANGED <<closed, result>>
                  ELSE IF Stale(n.state, closed)
                  THEN UNCHANGED <<pc, exc, closed, result>>
                  ELSE /\ closed' = closed \cup {n.state}
                       /\ IF is_goal(n.state)
                          THEN pc' = "done" /\ result' = n.plan /\ exc' = exc
                          ELSE /\ result' = result
                               /\ IF EarlyReturn(n.state)
                                  THEN /\ pc' = "raised"
                                       /\ exc' = "IndexError: list index out of range"
                                  ELSE pc' = "rank" /\ exc' = exc

\* propose_tools from its call_gpt call on, and the choice of
\* tool_candidates[0]
PRankTools ==
    /\ variant = "single"
    /\ pc = "rank"
    /\ \E ranked \in {p_propose_tools(node.state, reply, TOP_K) : reply \in RankReplies} :
           /\ oracle_called' = TRUE
           /\ IF ranked = <<>>
              THEN /\ pc' = "raised"
                   /\ exc' = "IndexError: list index out of range"
                   /\ UNCHANGED <<tool_candidates, ti>>
              ELSE /\ exc' = exc
                   /\ IF precondition(ranked[1][1], node.state)
                      THEN /\ pc' = "args"
                           /\ tool_candidates' = ranked
                           /\ ti' = 1
                      ELSE /\ pc' = "loop"
                           /\ UNCHANGED <<tool_candidates, ti>>
    /\ UNCHANGED <<callerVars, executorVars, callVars, steps, variant, registry, oracle_up, log_kept,
                   initial_state, user_question,
                   open_set, closed, node, arg_candidates, probs, ai, best,
                   result, pops>>

\* propose_args for the chosen tool and the simulations up to the first
\* candidate that does not raise; with none, the expansion ends
PProposeArgs ==
    /\ variant = "single"
    /\ pc = "args"
    /\ \E cands \in {propose_args(tool_candidates[ti][1], user_question, reply) :
                        reply \in ArgReplies} :
        LET k == NextArg(tool_candidates[ti][1], node.state, cands, 1)
        IN /\ oracle_called' = TRUE
           /\ IF k <= Len(cands)
              THEN /\ pc' = "prob"
                   /\ arg_candidates' = cands
                   /\ ai' = k
                   /\ UNCHANGED <<tool_candidates, ti>>
              ELSE /\ pc' = "loop"
                   /\ tool_candidates' = <<>>
                   /\ ti' = 0
                   /\ UNCHANGED <<arg_candidates, ai>>
    /\ UNCHANGED <<callerVars, executorVars, callVars, steps, variant, registry, oracle_up, log_kept,
                   initial_state, user_question,
                   open_set, closed, node, probs, best, result, exc, pops>>

\* predict_success for the current candidate, its cost (ZeroDivisionError
\* when combined_p is 0), the update of best, then the next candidate or
\* the end of the expansion
PPredictSuccess ==
    /\ variant = "single"
    /\ pc = "prob"
    /\ \E prob \in {predict_success(reply, draw) :
                       reply \in PredictReplies, draw \in UniformDraws} :
        LET tool == tool_candidates[ti][1]
            cp == p_combined_p(prob, tool_candidates[ti][2])
            c == Candidate(node, tool, arg_candidates[ai], prob, cp)
            b == IF Better(c, best) THEN <<c>> ELSE best
            k == NextArg(tool, node.state, arg_candidates, ai + 1)
        IN /\ oracle_called' = TRUE
           /\ IF cp = 0
              THEN /\ pc' = "raised"
                   /\ exc' = "ZeroDivisionError: float division by zero"
                   /\ UNCHANGED <<open_set, tool_candidates, ti, arg_candidates, ai, best>>
              ELSE /\ exc' = exc
                   /\ IF k <= Len(arg_candidates)
                      THEN /\ ai' = k
                           /\ best' = b
                           /\ UNCHANGED <<pc, open_set, tool_candidates, ti, arg_candidates>>
                      ELSE /\ pc' = "loop"
                           /\ open_set' = Pushed(open_set, b)
                           /\ ai' = 0
                           /\ best' = <<>>
                           /\ arg_candidates' = <<>>
                           /\ tool_candidates' = <<>>
                           /\ ti' = 0
    /\ UNCHANGED <<callerVars, executorVars, callVars, steps, variant, registry, oracle_up, log_kept,
                   initial_state, user_question,
                   closed, node, probs, result, pops>>

----------------------------------------------------------------------------
(* Initial states *)

\* "Book a train from New York to Boston"
Scenario ==
    <<"B", "o", "o", "k", " ", "a", " ", "t", "r", "a", "i", "n", " ",
      "f", "r", "o", "m", " ", "N", "e", "w", " ", "Y", "o", "r", "k", " ",
      "t", "o", " ", "B", "o", "s", "t", "o", "n">>

\* "to Rome"
ToRome == <<"t", "o", " ", "R", "o", "m", "e">>

\* the states astar is called on: every combination of set and unset
\* fields, and states with an empty string in a field
InitStates ==
    {State(o, d, t, c) : o \in {None, "Oslo"}, d \in {None, "Oslo"},
                         t \in {None, "Oslo"}, c \in BOOLEAN}
    \cup {State("", None, None, FALSE), State("Oslo", "", None, FALSE)}

\* the locals of astar after "heapq.heappush(open_set, root)"
\* the caller has called astar once, and no other invocation is under way
\* no client of the planner runs
NoAgent ==
    /\ use_plan_hint = TRUE /\ llm = "dummy" /\ max_steps = 10
    /\ ag_state = State(None, None, None, FALSE)
    /\ ag_idx = 0 /\ ag_pc = "idle" /\ trace = <<>>

NoClient == events = <<>> /\ be_pc = "idle" /\ NoAgent

FirstRun ==
    /\ runs = 1 /\ prev_result = <<>> /\ cur = 1 /\ other = <<>>
    /\ NoClient

\* no Executor has been made
NoExecutor ==
    /\ heap = <<>>
    /\ ex_state = 0
    /\ history = <<>>
    /\ ex_plan = <<>>
    /\ ex_idx = 0
    /\ ex_pc = "idle"
    /\ ex_exc = ""

\* no helper is called on its own
NoCall == call = [fn |-> "none"] /\ ret = <<>>

Start(v, reg, up, s0, q) ==
    /\ variant = v
    /\ registry = reg
    /\ oracle_up = up
    /\ initial_state = s0
    /\ user_question = q
    /\ open_set = <<Node(FromTenths(heuristic(s0)), 0, s0, <<>>)>>
    /\ closed = {}
    /\ node = NoNode
    /\ tool_candidates = <<>>
    /\ ti = 0
    /\ arg_candidates = <<>>
    /\ probs = <<>>
    /\ ai = 0
    /\ best = <<>>
    /\ pc = "loop"
    /\ result = <<>>
    /\ exc = ""
    /\ pops = 0
    /\ oracle_called = FALSE
    /\ steps = <<>>

\* either planner, the sample registry or an empty one, a working oracle
Init ==
    /\ log_kept = FALSE
    /\ \E v \in {"viz", "single"}, reg \in {TOOLS, <<>>}, s0 \in InitStates :
           Start(v, reg, TRUE, s0, ToRome)
    /\ FirstRun /\ NoExecutor /\ NoCall

NextViz == Pop \/ RankTools \/ ProposeArgs \/ PredictSuccess \/ Evaluate

NextSingle == PPop \/ PRankTools \/ PProposeArgs \/ PPredictSuccess

Next == NextViz \/ NextSingle

Spec == Init /\ [][Next]_vars

\* longest generated goal text
MaxQuestionLen == 5

\* "Rome,Oslo,Lima,Bonn"
FourCities ==
    <<"R", "o", "m", "e", ",", "O", "s", "l", "o", ",", "L", "i", "m", "a", ",",
      "B", "o", "n", "n">>

\* the goal texts: the scenario's, one with four city-like phrases, and every
\* text of at most MaxQuestionLen characters over a capital, a small letter
\* and a space
Questions ==
    {Scenario, FourCities}
    \cup UNION {[1..k -> {"A", "b", " "}] : k \in 0..MaxQuestionLen}

\* planner_viz.Planner.astar(State(), q) with every oracle call failing
InitFallback ==
    /\ log_kept = FALSE
    /\ \E q \in Questions :
           Start("viz", TOOLS, FALSE, State(None, None, None, FALSE), q)
    /\ FirstRun /\ NoExecutor /\ NoCall

SpecFallback == InitFallback /\ [][NextViz]_vars

\* the same, with the loop of astar running on as long as it can
SpecFallbackFair == SpecFallback /\ WF_vars(NextViz)

----------------------------------------------------------------------------
(* a caller that runs the same search twice *)

\* astar has returned a plan and the caller calls it again with the same
\* initial state and goal text: the locals of astar start afresh
Rerun ==
    /\ pc = "done"
    /\ runs = 1
    /\ runs' = 2
    /\ prev_result' = <<result>>
    /\ UNCHANGED <<cur, other, clientVars>>
    /\ UNCHANGED <<variant, registry, oracle_up, log_kept, initial_state, user_question>>
    /\ open_set' = <<Node(FromTenths(heuristic(initial_state)), 0,
                           initial_state, <<>>)>>
    /\ closed' = {}
    /\ node' = NoNode
    /\ tool_candidates' = <<>>
    /\ ti' = 0
    /\ arg_candidates' = <<>>
    /\ probs' = <<>>
    /\ ai' = 0
    /\ best' = <<>>
    /\ pc' = "loop"
    /\ result' = <<>>
    /\ exc' = ""
    /\ pops' = 0
    /\ oracle_called' = FALSE
    /\ UNCHANGED <<steps, executorVars, callVars>>

\* goal texts with one, three and four city-like phrases
RerunQuestions == {ToRome, Scenario, FourCities}

\* planner_viz.Planner.astar(State(), q) with every oracle call failing
InitRerun ==
    /\ log_kept = FALSE
    /\ \E q \in RerunQuestions :
           Start("viz", TOOLS, FALSE, State(None, None, None, FALSE), q)
    /\ FirstRun /\ NoExecutor /\ NoCall

NextRerun == NextViz \/ Rerun

SpecRerun == InitRerun /\ [][NextRerun]_vars

----------------------------------------------------------------------------
(* two invocations of astar, interleaved at their oracle calls *)

\* the arguments and locals of the running invocation
Frame ==
    [initial_state |-> initial_state, user_question |-> user_question,
     open_set |-> open_set, closed |-> closed, node |-> node,
     tool_candidates |-> tool_candidates, ti |-> ti,
     arg_candidates |-> arg_candidates, probs |-> probs, ai |-> ai,
     best |-> best, pc |-> pc, result |-> result, exc |-> exc, pops |-> pops,
     oracle_called |-> oracle_called, steps |-> steps]

\* the frame of astar(s0, q) after "heapq.heappush(open_set, root)"
StartFrame(s0, q) ==
    [initial_state |-> s0, user_question |-> q,
     open_set |-> <<Node(FromTenths(heuristic(s0)), 0, s0, <<>>)>>,
     closed |-> {}, node |-> NoNode, tool_candidates |-> <<>>, ti |-> 0,
     arg_candidates |-> <<>>, probs |-> <<>>, ai |-> 0, best |-> <<>>,
     pc |-> "loop", result |-> <<>>, exc |-> "", pops |-> 0,
     oracle_called |-> FALSE, steps |-> <<>>]

\* a closed that is one set for all invocations: the resumed invocation
\* finds what the other one left
ResumedClosedShared(f, cl) == cl

\* "closed = set()" is a local of astar: the resumed invocation finds the
\* set of its own frame f, not the set cl of the invocation that ran
ResumedClosed(f, cl) == f.closed

\* The running invocation waits at an oracle call, or has ended, and the
\* other one, which has not ended, runs on
Switch ==
    /\ other # <<>>
    /\ pc \in {"rank", "args", "prob", "done", "raised"}
    /\ other[1].pc \notin {"done", "raised"}
    /\ cur' = 3 - cur
    /\ other' = <<Frame>>
    /\ initial_state' = other[1].initial_state
    /\ user_question' = other[1].user_question
    /\ open_set' = other[1].open_set
    /\ closed' = ResumedClosed(other[1], closed)
    /\ node' = other[1].node
    /\ tool_candidates' = other[1].tool_candidates
    /\ ti' = other[1].ti
    /\ arg_candidates' = other[1].arg_candidates
    /\ probs' = other[1].probs
    /\ ai' = other[1].ai
    /\ best' = other[1].best
    /\ pc' = other[1].pc
    /\ result' = other[1].result
    /\ exc' = other[1].exc
    /\ pops' = other[1].pops
    /\ oracle_called' = other[1].oracle_called
    /\ steps' = other[1].steps
    /\ UNCHANGED <<variant, registry, oracle_up, log_kept, runs, prev_result, clientVars,
                   executorVars, callVars>>

\* Planner().astar(State(), q1) and Planner().astar(State(), q2), every
\* oracle call failing; the first invocation starts
InitInterleaved ==
    /\ log_kept = FALSE
    /\ \E q1 \in {ToRome, FourCities}, q2 \in {ToRome, FourCities} :
        /\ Start("viz", TOOLS, FALSE, State(None, None, None, FALSE), q1)
        /\ other = <<StartFrame(State(None, None, None, FALSE), q2)>>
    /\ runs = 1 /\ prev_result = <<>> /\ cur = 1 /\ NoClient
    /\ NoExecutor /\ NoCall

NextInterleaved == NextViz \/ Switch

SpecInterleaved == InitInterleaved /\ [][NextInterleaved]_vars

----------------------------------------------------------------------------
(* tool.py and execute.py: Tool.__call__ on a State object, and Executor *)

\* Tool.__call__ with the effect run before the precondition test
ToolCallEffectFirst(t, s, args) ==
    IF EffectRaises(t, args)
    THEN [exc |-> "IndexError: tuple index out of range", state |-> s]
    ELSE IF ~precondition(t, s)
    THEN [exc |-> "ValueError: Precondition failed", state |-> effect(t, s, args)]
    ELSE [exc |-> "", state |-> effect(t, s, args)]

\* tool(obj, *args) on an object whose fields are s: the exception it raises
\* ("" when it returns True) and the fields of the same object afterwards
ToolCall(t, s, args) ==
    IF ~precondition(t, s)
    THEN [exc |-> "ValueError: Precondition failed", state |-> s]
    ELSE IF EffectRaises(t, args)
    THEN [exc |-> "IndexError: tuple index out of range", state |-> s]
    ELSE [exc |-> "", state |-> effect(t, s, args)]

\* repr of an argument: None or a string without quotes in it
Repr(v) == IF v = None THEN "None" ELSE "'" \o v \o "'"

RECURSIVE ReprList(_)
ReprList(args) ==
    IF Len(args) = 1 THEN Repr(args[1])
    ELSE Repr(args[1]) \o ", " \o ReprList(Tail(args))

\* str(args) of a tuple
StrArgs(args) ==
    IF args = <<>> THEN "()"
    ELSE IF Len(args) = 1 THEN "(" \o Repr(args[1]) \o ",)"
    ELSE "(" \o ReprList(args) \o ")"

\* the snapshot row run_step appends, read from the state after the step
Row(step_idx, t, args, s) ==
    [Step |-> step_idx, Tool |-> t, Args |-> StrArgs(args),
     Origin |-> s.origin, Destination |-> s.destination,
     Transport |-> s.transport, Confirmed |-> s.booking_confirmed]

\* Executor.run_step(ex_idx, tool, args) for the next step of run_plan's loop
RunStep ==
    /\ ex_pc = "run"
    /\ ex_idx <= Len(ex_plan)
    /\ LET tool == ex_plan[ex_idx][1]
           args == ex_plan[ex_idx][2]
           out == ToolCall(tool, heap[ex_state], args)
       IN /\ heap' = [heap EXCEPT ![ex_state] = out.state]
          /\ IF out.exc # ""
             THEN /\ ex_pc' = "raised"
                  /\ ex_exc' = out.exc
                  /\ UNCHANGED <<history, ex_idx>>
             ELSE /\ history' = Append(history, Row(ex_idx, tool, args, out.state))
                  /\ ex_idx' = ex_idx + 1
                  /\ UNCHANGED <<ex_pc, ex_exc>>
    /\ UNCHANGED <<searchVars, callerVars, callVars, ex_state, ex_plan>>

\* run_plan's "return self.history" after the last step
RunPlanReturn ==
    /\ ex_pc = "run"
    /\ ex_idx > Len(ex_plan)
    /\ ex_pc' = "done"
    /\ UNCHANGED <<searchVars, callerVars, callVars, heap, ex_state, history,
                   ex_plan, ex_idx, ex_exc>>

\* longest plan handed to run_plan
MaxPlanLen == 3

\* the steps of those plans: any tool, with no argument or with one
Steps == {<<t, a>> : t \in {TOOLS[i] : i \in 1..Len(TOOLS)}, a \in {<<>>, <<"Paris">>}}

Plans == UNION {[1..k -> Steps] : k \in 0..MaxPlanLen}

\* no search runs
NoSearch == Start("viz", TOOLS, TRUE, State(None, None, None, FALSE), <<>>)

\* Executor(s0).run_plan(plan): s0 is the caller's object 1, and
\* "self.state = initial_state or State()" makes Executor.state refer to it
InitExec ==
    /\ log_kept = FALSE
    /\ NoSearch /\ FirstRun /\ NoCall
    /\ \E s0 \in InitStates, plan \in Plans :
        /\ heap = <<s0>>
        /\ ex_state = 1
        /\ history = <<>>
        /\ ex_plan = plan
        /\ ex_idx = 1
        /\ ex_pc = "run"
        /\ ex_exc = ""

NextExec == RunStep \/ RunPlanReturn

SpecExec == InitExec /\ [][NextExec]_vars

----------------------------------------------------------------------------
(* backend.py: execute_generator, the events it yields for one request *)

\* plan_json: the steps of the plan, numbered from 1
PlanJson(plan) ==
    [i \in 1..Len(plan) |-> [step |-> i, tool |-> plan[i][1], args |-> plan[i][2]]]

\* round(i / total, 4), in ten-thousandths
Progress(i, total) == (2 * 10000 * i + total) \div (2 * total)

\* a step event that counts the steps from 0
StepEventZeroBased(i, total, tool, args, snapshot) ==
    [event |-> "step", index |-> i - 1, total |-> total, tool |-> tool,
     args |-> args, state |-> snapshot, progress |-> Progress(i, total)]

\* the payload of a "step" event
StepEvent(i, total, tool, args, snapshot) ==
    [event |-> "step", index |-> i, total |-> total, tool |-> tool,
     args |-> args, state |-> snapshot, progress |-> Progress(i, total)]

\* p.astar(State(), question) has returned: the "planner" event is yielded
\* and "exe = Executor(State())" is made
YieldPlanner ==
    /\ be_pc = "plan"
    /\ pc = "done"
    /\ events' = Append(events, [event |-> "planner", question |-> user_question,
                                 steps |-> PlanJson(result)])
    /\ heap' = <<State(None, None, None, FALSE)>>
    /\ ex_state' = 1
    /\ history' = <<>>
    /\ ex_idx' = 1
    /\ be_pc' = "loop"
    /\ UNCHANGED <<searchVars, runs, prev_result, cur, other, agentVars, callVars,
                   ex_plan, ex_pc, ex_exc>>

\* one turn of "for i, (tool, args) in enumerate(plan, start=1)":
\* exe.run_step(i, tool, args), then the "step" event with exe.history[-1]
YieldStep ==
    /\ be_pc = "loop"
    /\ ex_idx <= Len(result)
    /\ LET tool == result[ex_idx][1]
           args == result[ex_idx][2]
           out == ToolCall(tool, heap[ex_state], args)
           snapshot == Row(ex_idx, tool, args, out.state)
       IN /\ heap' = [heap EXCEPT ![ex_state] = out.state]
          /\ IF out.exc # ""
             THEN /\ be_pc' = "raised"
                  /\ ex_exc' = out.exc
                  /\ UNCHANGED <<history, ex_idx, events>>
             ELSE /\ history' = Append(history, snapshot)
                  /\ events' = Append(events, StepEvent(ex_idx, Len(result), tool,
                                                       args, snapshot))
                  /\ ex_idx' = ex_idx + 1
                  /\ UNCHANGED <<be_pc, ex_exc>>
    /\ UNCHANGED <<searchVars, runs, prev_result, cur, other, agentVars, callVars,
                   ex_state, ex_plan, ex_pc>>

\* after the loop: the "done" event with the last snapshot; with an empty
\* plan the name snapshot was never bound
YieldDone ==
    /\ be_pc = "loop"
    /\ ex_idx > Len(result)
    /\ IF result = <<>>
       THEN /\ be_pc' = "raised"
            /\ ex_exc' = "UnboundLocalError"
            /\ UNCHANGED events
       ELSE /\ events' = Append(events, [event |-> "done", total |-> Len(result),
                                        final_state |-> history[Len(history)]])
            /\ be_pc' = "done"
            /\ UNCHANGED ex_exc
    /\ UNCHANGED <<searchVars, runs, prev_result, cur, other, agentVars, callVars,
                   heap, ex_state, history, ex_plan, ex_idx, ex_pc>>

\* execute_generator(question): planner().astar(State(), question) with
\* the sample registry and a working oracle is under way
InitBackend ==
    /\ log_kept = FALSE
    /\ \E q \in {ToRome, Scenario} :
           Start("single", TOOLS, TRUE, State(None, None, None, FALSE), q)
    /\ runs = 1 /\ prev_result = <<>> /\ cur = 1 /\ other = <<>>
    /\ events = <<>> /\ be_pc = "plan" /\ NoAgent
    /\ NoExecutor /\ NoCall

NextBackend == NextSingle \/ YieldPlanner \/ YieldStep \/ YieldDone

SpecBackend == InitBackend /\ [][NextBackend]_vars

----------------------------------------------------------------------------
(* agent_execute.py: DummyLLM and AgentExecutor.run *)

\* str(None) is the text 'None', which is not None
NoneText == "'None' (str)"

\* str(x) of an argument the model answered
Str(x) ==
    IF x = None THEN NoneText
    ELSE IF x = Unhashable THEN "str([list])"
    ELSE x

\* tuple(str(x) for x in args)
StrAll(args) == [i \in 1..Len(args) |-> Str(args[i])]

\* asdict(State()) before any step
StartState == State(None, None, None, FALSE)

\* dict_diff(prev, curr): the keys whose values differ, with both values
dict_diff(prev, curr) ==
    {[key |-> k, before |-> prev[k], after |-> curr[k]] :
        k \in {f \in DOMAIN prev \cup DOMAIN curr : prev[f] # curr[f]}}

\* A prompt is kept as the sequence of the pieces DummyLLM looks for:
\* markers, brackets, other text, and the entries of the tools list
Sym(v) == [tok |-> "sym", v |-> v]

\* NOHINT_USER_TEMPLATE ends with: Now produce ONLY JSON:
\* {"thought": "...", "tool": "<tool_name or STOP>", "args": [...]}
NoHintTail ==
    <<Sym("Now produce ONLY JSON:"), Sym("{"), Sym("["), Sym("..."), Sym("]"),
      Sym("}")>>

\* "available": the tools whose precondition holds, by name and arg_names
Available(s) ==
    LET app == SelectSeq(TOOLS, LAMBDA t : precondition(t, s))
    IN [i \in 1..Len(app) |-> [tok |-> "tool", name |-> app[i],
                               arg_names |-> arg_names(app[i])]]

\* json.dumps(available): "[", the entries, "]"
ToolsJson(available) == <<Sym("[")>> \o available \o <<Sym("]")>>

\* NOHINT_USER_TEMPLATE.format(...)
NoHintUserBlock(available) ==
    <<Sym("USER QUESTION:"), Sym("CURRENT STEP:"), Sym("CURRENT STATE SNAPSHOT:"),
      Sym("AVAILABLE TOOLS:")>> \o ToolsJson(available) \o NoHintTail

\* STEP_USER_TEMPLATE.format(...): PLANNED_ARGS: and json.dumps(list(planned_args))
\* on one line, then the last line
StepUserBlock(planned_args) ==
    <<Sym("USER QUESTION:"), Sym("PLAN (HINT):"), Sym("CURRENT STEP:"),
      Sym("CURRENT STATE SNAPSHOT:"), Sym("PLANNED_ARGS:"),
      [tok |-> "args", list |-> planned_args],
      Sym("Now produce ONLY JSON:")>>

\* str.find: the first position of x in txt, 0 when there is none
Find(txt, x) ==
    IF \E i \in 1..Len(txt) : txt[i] = x
    THEN CHOOSE i \in 1..Len(txt) : txt[i] = x /\ \A j \in 1..(i - 1) : txt[j] # x
    ELSE 0

\* str.rfind: the last position of x in txt, 0 when there is none
RFind(txt, x) ==
    IF \E i \in 1..Len(txt) : txt[i] = x
    THEN CHOOSE i \in 1..Len(txt) : txt[i] = x /\ \A j \in (i + 1)..Len(txt) : txt[j] # x
    ELSE 0

\* json.loads of a piece of text that should be the tools list: the list
\* when the text is "[", entries, "]" and nothing else, else [] (the
\* "except Exception: tools = []")
LoadTools(txt) ==
    IF /\ Len(txt) >= 2
       /\ txt[1] = Sym("[") /\ txt[Len(txt)] = Sym("]")
       /\ \A i \in 2..(Len(txt) - 1) : txt[i].tok = "tool"
    THEN SubSeq(txt, 2, Len(txt) - 1)
    ELSE <<>>

\* the value a key has when the reply does not hold it
Absent == "(absent)"

\* the "args" of a reply: Absent, NotAList (a value that is no JSON
\* array), or "list" with the array in the field list
NotAList == "(not a list)"

ArgsReplies(lists) ==
    {[args |-> k, list |-> <<>>] : k \in {Absent, NotAList}}
    \cup {[args |-> "list", list |-> l] : l \in lists}

\* the naive default args of DummyLLM, cut to len(arg_names)
DefaultArgs(tn, names) ==
    LET d == CASE tn = "set_origin" -> <<"New York">>
               [] tn = "set_destination" -> <<"Boston">>
               [] tn = "select_transport" -> <<"flight">>
               [] tn = "confirm_booking" -> <<>>
    IN Take(d, Len(names))

\* DummyLLM.complete(system, user): with PLANNED_ARGS: in the prompt the
\* planned args are echoed; else the first tool of the AVAILABLE TOOLS list
\* that it knows, or STOP
DummyComplete(user) ==
    LET p == Find(user, Sym("PLANNED_ARGS:"))
    IN IF p > 0 /\ p < Len(user) /\ user[p + 1].tok = "args"
       THEN [kind |-> "object", tool |-> Absent, args |-> "list",
             list |-> user[p + 1].list]
       ELSE LET m == Find(user, Sym("AVAILABLE TOOLS:"))
                tools_block == IF m > 0 THEN Drop(user, m) ELSE <<>>
                start == Find(tools_block, Sym("["))
                end == RFind(tools_block, Sym("]"))
                tools == IF m > 0 /\ start > 0
                         THEN LoadTools(SubSeq(tools_block, start, end))
                         ELSE <<>>
                known == SelectSeq(tools, LAMBDA t : InSeq(t.name, TOOLS))
            IN IF known = <<>>
               THEN [kind |-> "object", tool |-> "STOP", args |-> "list",
                     list |-> <<>>]
               ELSE [kind |-> "object", tool |-> known[1].name, args |-> "list",
                     list |-> DefaultArgs(known[1].name, known[1].arg_names)]

\* what another model may answer to a step prompt: text that is no JSON
\* object, or an object with or without an "args" array
HintReplies ==
    {[kind |-> "text"]}
    \cup {[kind |-> "object", tool |-> Absent, args |-> a.args, list |-> a.list] :
            a \in ArgsReplies({<<>>, <<"Oslo">>, <<None>>})}

\* what another model may answer in no-hint mode
NoHintReplies ==
    {[kind |-> "text"]}
    \cup {[kind |-> "object", tool |-> t, args |-> a.args, list |-> a.list] :
            t \in {TOOLS[i] : i \in 1..Len(TOOLS)} \cup {"STOP", "stop", "fly", Absent},
            a \in ArgsReplies({<<>>, <<"Oslo">>})}

\* self.llm.complete(system, user): the replies it can give
Complete(l, user, any) == IF l = "dummy" THEN {DummyComplete(user)} ELSE any

\* hint mode: the args the step runs with, the model's when its reply
\* parses and holds a list, else tuple(planned_args)
HintArgs(raw, planned_args) ==
    IF raw.kind # "object" \/ raw.args = NotAList THEN planned_args
    ELSE StrAll(raw.list)

\* no-hint mode: chosen_tool_name, args_tuple and error after the try block
ParseNoHint(raw) ==
    IF raw.kind # "object"
    THEN [tool |-> "STOP", args |-> <<>>, error |-> "Parse error"]
    ELSE LET name == IF raw.tool = Absent THEN "STOP" ELSE raw.tool
         IN IF raw.args = NotAList
            THEN [tool |-> name, args |-> <<>>, error |-> "Parse error"]
            ELSE [tool |-> name,
                  args |-> StrAll(raw.list),
                  error |-> None]

\* chosen_tool_name.upper()
Upper(name) == IF name \in {"STOP", "stop"} THEN "STOP" ELSE name

\* one entry of self.trace (agent_thought, free text that nothing reads
\* again, is left out)
Entry(idx, tool, planned_args, args, ok, error, prev, curr) ==
    [step |-> idx, tool |-> tool, planned_args |-> planned_args,
     agent_args |-> args, pre_ok |-> ok, error |-> error,
     observation |-> dict_diff(prev, curr), state_after |-> curr]

\* the entry of a step that ends the no-hint loop without a tool
StopEntry(idx, error, prev) ==
    [step |-> idx, tool |-> "STOP", planned_args |-> <<>>,
     agent_args |-> <<>>, pre_ok |-> FALSE, error |-> error,
     observation |-> {}, state_after |-> prev]

\* the text of the exception a tool call raised
Raised(e) == "Tool raised: " \o e

\* a hint step that runs the effect without a test of the precondition
HintCallUnchecked(tool, s, args, ok) ==
    IF EffectRaises(tool, args)
    THEN [error |-> Raised("IndexError: tuple index out of range"), state |-> s]
    ELSE [error |-> None, state |-> effect(tool, s, args)]

\* agent_execute.py lines 295-303: the tool is called only when ok
HintCall(tool, s, args, ok) ==
    IF ~ok THEN [error |-> "Precondition failed - tool skipped.", state |-> s]
    ELSE LET out == ToolCall(tool, s, args)
         IN [error |-> IF out.exc = "" THEN None ELSE Raised(out.exc),
             state |-> out.state]

\* hint mode: "plan = p.astar(State(), user_question)" has returned
HintPlan ==
    /\ ag_pc = "plan"
    /\ pc = "done"
    /\ ag_pc' = "loop"
    /\ ag_state' = StartState
    /\ ag_idx' = 0
    /\ UNCHANGED <<searchVars, runs, prev_result, cur, other, events, be_pc,
                   use_plan_hint, llm, max_steps, trace, executorVars, callVars>>

\* hint mode: one turn of "for step_idx, (tool, planned_args) in enumerate(plan, start=1)"
HintStep ==
    /\ ag_pc = "loop"
    /\ use_plan_hint
    /\ ag_idx < Len(result)
    /\ LET idx == ag_idx + 1
           tool == result[idx][1]
           planned_args == result[idx][2]
       IN \E raw \in Complete(llm, StepUserBlock(planned_args), HintReplies) :
            LET args_tuple == HintArgs(raw, planned_args)
                ok == precondition(tool, ag_state)
                out == HintCall(tool, ag_state, args_tuple, ok)
            IN /\ ag_state' = out.state
               /\ trace' = Append(trace, Entry(idx, tool, planned_args, args_tuple,
                                               ok, out.error, ag_state, out.state))
               /\ ag_idx' = idx
    /\ UNCHANGED <<searchVars, runs, prev_result, cur, other, events, be_pc,
                   use_plan_hint, llm, max_steps, ag_pc, executorVars, callVars>>

\* a no-hint loop that goes on after booking_confirmed
LoopGoesOnUnbounded(idx, m, s) == ~s.booking_confirmed

\* "while step_idx < self.max_steps and not state.booking_confirmed"
LoopGoesOn(idx, m, s) == idx < m /\ ~s.booking_confirmed

\* no-hint mode: one turn of the while loop
NoHintStep ==
    /\ ag_pc = "loop"
    /\ ~use_plan_hint
    /\ LoopGoesOn(ag_idx, max_steps, ag_state)
    /\ LET idx == ag_idx + 1
           available == Available(ag_state)
       IN /\ ag_idx' = idx
          /\ IF available = <<>>
             THEN /\ trace' = Append(trace, StopEntry(idx, "No tool applicable", ag_state))
                  /\ ag_pc' = "done"
                  /\ UNCHANGED ag_state
             ELSE \E raw \in Complete(llm, NoHintUserBlock(available), NoHintReplies) :
                    LET parsed == ParseNoHint(raw)
                        name == parsed.tool
                    IN IF Upper(name) = "STOP"
                       THEN /\ trace' = Append(trace, StopEntry(idx, parsed.error, ag_state))
                            /\ ag_pc' = "done"
                            /\ UNCHANGED ag_state
                       ELSE LET known == InSeq(name, TOOLS)
                                ok == known /\ precondition(name, ag_state)
                                error == IF ~known THEN "Unknown tool"
                                         ELSE IF ~ok THEN "Precondition failed"
                                         ELSE parsed.error
                                out == IF error = None /\ known
                                       THEN ToolCall(name, ag_state, parsed.args)
                                       ELSE [exc |-> "", state |-> ag_state]
                                err == IF out.exc # "" THEN Raised(out.exc) ELSE error
                            IN /\ ag_state' = out.state
                               /\ trace' = Append(trace, Entry(idx, name, <<>>, parsed.args,
                                                               ok, err, ag_state, out.state))
                               /\ ag_pc' = IF out.state.booking_confirmed
                                           THEN "done" ELSE "loop"
    /\ UNCHANGED <<searchVars, runs, prev_result, cur, other, events, be_pc,
                   use_plan_hint, llm, max_steps, executorVars, callVars>>

\* "return self.trace": the for loop is over, or the while condition is false
AgentReturn ==
    /\ ag_pc = "loop"
    /\ IF use_plan_hint THEN ag_idx >= Len(result)
       ELSE ~LoopGoesOn(ag_idx, max_steps, ag_state)
    /\ ag_pc' = "done"
    /\ UNCHANGED <<searchVars, runs, prev_result, cur, other, events, be_pc,
                   use_plan_hint, llm, max_steps, ag_state, ag_idx, trace,
                   executorVars, callVars>>

\* the largest max_steps an AgentExecutor is made with
MaxSteps == 4

\* AgentExecutor(llm, use_plan_hint, max_steps).run(question): in hint mode
\* Planner().astar(State(), question) is under way, with every oracle call
\* of the planner failing; in no-hint mode no planner is made
InitAgent ==
    /\ log_kept = FALSE
    /\ Start("viz", TOOLS, FALSE, StartState, ToRome)
    /\ runs = 1 /\ prev_result = <<>> /\ cur = 1 /\ other = <<>>
    /\ events = <<>> /\ be_pc = "idle"
    /\ use_plan_hint \in BOOLEAN
    /\ llm \in {"dummy", "any"}
    /\ max_steps \in {2, MaxSteps}
    /\ ag_state = StartState
    /\ ag_idx = 0
    /\ ag_pc = IF use_plan_hint THEN "plan" ELSE "loop"
    /\ trace = <<>>
    /\ NoExecutor /\ NoCall

NextAgent ==
    \/ (ag_pc = "plan" /\ NextViz)
    \/ HintPlan \/ HintStep \/ NoHintStep \/ AgentReturn

SpecAgent == InitAgent /\ [][NextAgent]_vars

----------------------------------------------------------------------------
(* planner_viz.py: Planner.main, and astar with its log kept *)

\* one turn of "for i, (tool, args) in enumerate(plan)" in main:
\* tool(exec_state, *args), then self.logger.mark_executed(i)
MarkExecuted ==
    /\ ex_pc = "main"
    /\ pc = "done"
    /\ ex_idx < Len(result)
    /\ LET tool == result[ex_idx + 1][1]
           args == result[ex_idx + 1][2]
           out == ToolCall(tool, heap[ex_state], args)
       IN /\ heap' = [heap EXCEPT ![ex_state] = out.state]
          /\ IF out.exc # ""
             THEN /\ ex_pc' = "raised"
                  /\ ex_exc' = out.exc
                  /\ UNCHANGED <<ex_idx, steps>>
             ELSE IF NoEntry(steps, ex_idx)
             THEN /\ ex_pc' = "raised"
                  /\ ex_exc' = "IndexError: list index out of range"
                  /\ UNCHANGED <<ex_idx, steps>>
             ELSE /\ steps' = mark_executed(steps, ex_idx)
                  /\ ex_idx' = ex_idx + 1
                  /\ UNCHANGED <<ex_pc, ex_exc>>
    /\ UNCHANGED <<variant, registry, oracle_up, initial_state, user_question,
                   open_set, closed, node, tool_candidates, ti, arg_candidates,
                   probs, ai, best, pc, result, exc, pops, oracle_called,
                   log_kept, callerVars, callVars, ex_state, history, ex_plan>>

\* main after its loop: generate_html and the last print
MainReturn ==
    /\ ex_pc = "main"
    /\ pc = "done"
    /\ ex_idx = Len(result)
    /\ ex_pc' = "done"
    /\ UNCHANGED <<searchVars, callerVars, callVars, heap, ex_state, history,
                   ex_plan, ex_idx, ex_exc>>

\* the states astar is called on with its log kept: State(), as main does,
\* and a state one step from the goal
LogStates == {StartState, State("Oslo", "Oslo", "Oslo", FALSE)}

\* Planner().astar(s0, question) on a new Planner, with a working oracle;
\* from State() it is main that calls, and main executes the plan
InitLog ==
    /\ log_kept = TRUE
    /\ \E s0 \in LogStates :
        /\ Start("viz", TOOLS, TRUE, s0, ToRome)
        /\ ex_pc = IF s0 = StartState THEN "main" ELSE "idle"
    /\ FirstRun /\ NoCall
    /\ heap = <<StartState>>
    /\ ex_state = 1
    /\ history = <<>>
    /\ ex_plan = <<>>
    /\ ex_idx = 0
    /\ ex_exc = ""

NextLog == NextViz \/ MarkExecuted \/ MainReturn

SpecLog == InitLog /\ [][NextLog]_vars

----------------------------------------------------------------------------
(* One call of a helper on its own, on any input *)

\* the States compared: every field empty, set, or (origin) the empty
\* string or a list
EqStates ==
    {State(o, d, t, c) : o \in {None, "Oslo", "", Unhashable},
                         d \in {None, "Oslo"}, t \in {None, "Oslo"}, c \in BOOLEAN}

\* hash() of None and of the strings in this process
HashSeeds == [{None, "Oslo", ""} -> {0, 1}]

\* the whole of propose_tools: its early return, then the parse of the reply
ProposeToolsCall(v, s, reply, top_k) ==
    IF EarlyReturn(s) THEN <<>>
    ELSE IF v = "viz" THEN propose_tools(s, reply, top_k)
    ELSE p_propose_tools(s, reply, top_k)

\* what float(out) can be handed by the success oracle: as in the search,
\* and a number below 0
CallPredictReplies ==
    PredictReplies \cup {[kind |-> "number", value |-> 0 - 500]}

InitCalls ==
    /\ log_kept = FALSE
    /\ FirstRun /\ NoExecutor
    /\ ret = <<>>
    /\ \/ \E reg \in {TOOLS, <<>>}, s0 \in InitStates :
             /\ Start("viz", reg, TRUE, State(None, None, None, FALSE), <<>>)
             /\ call = [fn |-> "heuristic", state |-> s0]
       \/ NoSearch /\ \E s1 \in EqStates, s2 \in EqStates, seed \in HashSeeds :
             call = [fn |-> "eq", s1 |-> s1, s2 |-> s2, seed |-> seed]
       \/ NoSearch /\ \E v \in {"viz", "single"}, s0 \in InitStates, reply \in RankReplies,
             top_k \in {1, TOP_K} :
             call = [fn |-> "propose_tools", variant |-> v, state |-> s0,
                     reply |-> reply, top_k |-> top_k]
       \/ NoSearch /\ \E tool \in {TOOLS[i] : i \in 1..Len(TOOLS)}, reply \in ArgReplies,
             txt \in {<<>>, ToRome, Scenario, FourCities} :
             call = [fn |-> "propose_args", tool |-> tool, txt |-> txt,
                     reply |-> reply]
       \/ NoSearch /\ \E reply \in CallPredictReplies, draw \in UniformDraws :
             call = [fn |-> "predict_success", reply |-> reply, draw |-> draw]

\* s1 == s2, hash(s1), hash(s2) and "s2 in {s1}"
CallStateEq ==
    /\ call.fn = "eq" /\ ret = <<>>
    /\ ret' = <<[eq |-> StateEq(call.s1, call.s2),
                 h1 |-> StateHash(call.s1, call.seed),
                 h2 |-> StateHash(call.s2, call.seed),
                 found |-> IF HashRaises(call.s1) \/ HashRaises(call.s2)
                           THEN "TypeError"
                           ELSE Contains({call.s1}, call.s2, call.seed)]>>
    /\ UNCHANGED <<searchVars, callerVars, executorVars, call>>

CallProposeTools ==
    /\ call.fn = "propose_tools" /\ ret = <<>>
    /\ ret' = <<ProposeToolsCall(call.variant, call.state, call.reply, call.top_k)>>
    /\ UNCHANGED <<searchVars, callerVars, executorVars, call>>

CallProposeArgs ==
    /\ call.fn = "propose_args" /\ ret = <<>>
    /\ ret' = <<propose_args(call.tool, call.txt, call.reply)>>
    /\ UNCHANGED <<searchVars, callerVars, executorVars, call>>

CallPredictSuccess ==
    /\ call.fn = "predict_success" /\ ret = <<>>
    /\ ret' = <<predict_success(call.reply, call.draw)>>
    /\ UNCHANGED <<searchVars, callerVars, executorVars, call>>

\* heuristic(state) with the registry the module sees
CallHeuristic ==
    /\ call.fn = "heuristic" /\ ret = <<>>
    /\ ret' = <<heuristic(call.state)>>
    /\ UNCHANGED <<searchVars, callerVars, executorVars, call>>

NextCalls ==
    \/ CallStateEq \/ CallProposeTools \/ CallProposeArgs \/ CallPredictSuccess
    \/ CallHeuristic

SpecCalls == InitCalls /\ [][NextCalls]_vars

----------------------------------------------------------------------------
(* The candidate loop of one expansion, on State objects *)

\* "sim_state = node.state": the simulation works on the node's own object
CloneAlias(h, ref) == [heap |-> h, ref |-> ref]

\* "sim_state = State(**asdict(node.state))": a new object with the field
\* values of object ref; the heap with it, and its id
Clone(h, ref) == [heap |-> Append(h, CopyState(h[ref])), ref |-> Len(h) + 1]

\* most argument tuples in one propose_args result
MaxCandidates == 3

\* the argument lists simulated: tuples without argument, with a city and
\* with None
SimCandidates ==
    UNION {[1..k -> {<<>>, <<"Paris">>, <<None>>}] : k \in 1..MaxCandidates}

\* One expansion has popped a node whose state is object 1 (for the root it
\* is the caller's initial_state object, and closed.add has put it in
\* CLOSED) and has chosen a tool whose precondition holds on it; call.cands
\* is what propose_args returned
InitSim ==
    /\ log_kept = FALSE
    /\ NoSearch /\ FirstRun
    /\ ex_state = 0 /\ history = <<>> /\ ex_plan = <<>> /\ ex_idx = 0
    /\ ex_pc = "idle" /\ ex_exc = ""
    /\ ret = <<>>
    /\ \E s0 \in InitStates, tool \in {TOOLS[i] : i \in 1..Len(TOOLS)},
          cands \in SimCandidates :
        /\ precondition(tool, s0)
        /\ heap = <<s0>>
        /\ call = [fn |-> "simulate", node |-> 1, tool |-> tool, cands |-> cands]

\* One pass of the loop over the candidates: the clone, then
\* tool(sim_state, *args) on it inside try/except
Simulate ==
    /\ call.fn = "simulate"
    /\ Len(ret) < Len(call.cands)
    /\ LET c == Clone(heap, call.node)
           out == ToolCall(call.tool, c.heap[c.ref], call.cands[Len(ret) + 1])
       IN /\ heap' = [c.heap EXCEPT ![c.ref] = out.state]
          /\ ret' = Append(ret, [sim_state |-> c.ref, exc |-> out.exc])
    /\ UNCHANGED <<searchVars, callerVars, call, ex_state, history, ex_plan,
                   ex_idx, ex_pc, ex_exc>>

SpecSim == InitSim /\ [][Simulate]_vars

----------------------------------------------------------------------------
(* Replay of a plan (Executor.run_plan, Planner.main) *)

\* ok: no step raised; state: the state after the last step that ran
RECURSIVE Replay(_, _)
Replay(plan, s) ==
    IF plan = <<>> THEN [ok |-> TRUE, state |-> s]
    ELSE IF CallRaises(plan[1][1], s, plan[1][2]) THEN [ok |-> FALSE, state |-> s]
    ELSE Replay(Tail(plan), Call(plan[1][1], s, plan[1][2]))

\* the tool names of a plan, in order
ToolNames(plan) == [i \in 1..Len(plan) |-> plan[i][1]]

NoPlanFound == "RuntimeError: No plan found"

\* the exceptions that leave planner_viz.Planner.astar: its own raise after
\* the loop, and the TypeError of hash(node.state) in "node.state in closed"
\* (every other exception is caught inside the helpers or the loop)
VizFailures == {NoPlanFound, "TypeError: unhashable type"}

----------------------------------------------------------------------------
(* Properties *)

\* C1: every plan astar returns, in either planner, replays from a fresh
\* copy of the initial state without a failed precondition and ends in a
\* state that satisfies is_goal().
PlanValidity ==
    pc = "done" =>
        LET r == Replay(result, CopyState(initial_state))
        IN r.ok /\ is_goal(r.state)

PlanValidityWitness ==
    pc = "done" /\ variant = "single" /\ Len(result) = 4

\* C2: with the sample registry and the initial state State(), every plan
\* returned is set_origin, set_destination, select_transport,
\* confirm_booking: four steps, each tool once, in this order.
ChainOrder ==
    (pc = "done" /\ registry = TOOLS
        /\ initial_state = State(None, None, None, FALSE))
    => ToolNames(result) = TOOLS

ChainOrderWitness ==
    /\ pc = "done" /\ registry = TOOLS /\ variant = "viz"
    /\ initial_state = State(None, None, None, FALSE)
    /\ result[1][2] = <<"Paris">>

\* C3: with every oracle call failing, Planner.astar(State(), goal_text)
\* ends, for every goal text, by returning a plan that replays from State()
\* to a goal state without a failed precondition.
FallbackFindsPlan ==
    <>(/\ pc = "done"
       /\ Replay(result, CopyState(initial_state)).ok
       /\ is_goal(Replay(result, CopyState(initial_state)).state))

FallbackFindsPlanWitness ==
    /\ pc = "done" /\ ~oracle_up /\ user_question = FourCities
    /\ Len(result) = 4 /\ result[2][2] = <<"Bonn">>

\* C4: with every oracle call failing, State() and the goal text "Book a
\* train from New York to Boston", the plan returned is set_origin("New
\* York"), set_destination("Boston"), select_transport("train"),
\* confirm_booking(), whatever the fallback probabilities are, and it
\* replays to origin New York, destination Boston, transport train,
\* confirmed.
ScenarioPlan ==
    (pc = "done" /\ ~oracle_up /\ user_question = Scenario
        /\ initial_state = State(None, None, None, FALSE))
    => /\ result = <<<<"set_origin", <<"New York">>>>,
                     <<"set_destination", <<"Boston">>>>,
                     <<"select_transport", <<"train">>>>,
                     <<"confirm_booking", <<>>>>>>
       /\ Replay(result, CopyState(initial_state)).state
              = State("New York", "Boston", "train", TRUE)

\* C5: whatever the oracle returns, Planner.astar(State(), goal_text) with
\* the sample registry returns a plan: it never raises.
OracleErrorsRecovered ==
    (variant = "viz" /\ registry = TOOLS
        /\ initial_state = State(None, None, None, FALSE))
    => pc # "raised"

\* C6: in Planner.astar the divisor combined_p of every candidate is at
\* least the floor 1e-9, so f_new is at most g_new + heuristic / 1e-9 and no
\* division raises, also when the prior or the probability is 0.
DivisionSafety ==
    variant = "viz" =>
        /\ exc # "ZeroDivisionError: float division by zero"
        /\ best # <<>> =>
              /\ best[1].combined_p >= EPSILON
              /\ ~Less(Plus(best[1].g_new,
                            Quotient(heuristic(best[1].sim_state), EPSILON)),
                       best[1].f_new)

DivisionSafetyWitness ==
    /\ variant = "viz" /\ best # <<>>
    /\ best[1].prob = 0 /\ best[1].combined_p = EPSILON
    /\ best[1].f_new.big > 0

\* C7: in planner.astar the product prob * tool_prior is floored above zero
\* before it divides, so no ZeroDivisionError ends the search.
PDivisionSafety ==
    variant = "single" => exc # "ZeroDivisionError: float division by zero"

\* C8: in planner.astar an empty ranking discards the node and the loop
\* goes on, so the search ends only by returning a plan or by raising
\* RuntimeError('No plan found').
EmptyRankingDiscarded ==
    (variant = "single" /\ pc = "raised") => exc = NoPlanFound

\* C9: with an empty registry and a non-goal initial state Planner.astar
\* pops exactly one node, calls no oracle, returns no plan and raises
\* RuntimeError('No plan found').
EmptyRegistryFails ==
    (variant = "viz" /\ registry = <<>> /\ ~is_goal(initial_state)) =>
        /\ pc \in {"loop", "raised"}
        /\ ~oracle_called
        /\ pops <= 1
        /\ pc = "loop" => (pops = 1 <=> open_set = <<>>)
        /\ pc = "raised" => exc = NoPlanFound /\ pops = 1

EmptyRegistryFailsWitness ==
    variant = "viz" /\ registry = <<>> /\ pc = "raised" /\ pops = 1

\* C10: Planner.astar ends in one of two ways only: it returns the plan of
\* a popped node whose state is a goal, or it raises RuntimeError('No plan
\* found') with OPEN empty.
TwoOutcomes ==
    variant = "viz" =>
        /\ pc = "done" => result = node.plan /\ is_goal(node.state)
        /\ pc = "raised" => exc = NoPlanFound /\ open_set = <<>>

\* a budget of node expansions that a caller sets
ExpansionBudget == 2

\* C11: the search loop takes a deadline or a maximum number of node
\* expansions, and once that budget is exceeded it has ended with the
\* failure PlanningTimedOut, which is not the failure of an exhausted OPEN.
BudgetEnforced ==
    pops > ExpansionBudget => pc = "raised" /\ exc = "PlanningTimedOut"

\* C12: a step whose precondition is false on the executor's state raises
\* the precondition failure before the effect runs: run_step leaves the
\* state and the history as they were, and run_plan stops there, the rows
\* of the earlier steps kept.
PreconditionViolation ==
    [][/\ (/\ ex_pc = "run"
           /\ ex_idx <= Len(ex_plan)
           /\ ~precondition(ex_plan[ex_idx][1], heap[ex_state]))
          => /\ ex_pc' = "raised"
             /\ ex_exc' = "ValueError: Precondition failed"
             /\ heap' = heap /\ ex_state' = ex_state
             /\ history' = history /\ ex_idx' = ex_idx
       /\ ex_pc = "raised" => UNCHANGED executorVars]_vars

PreconditionViolationWitness ==
    /\ ex_pc = "raised" /\ ex_exc = "ValueError: Precondition failed"
    /\ ex_idx = 3 /\ Len(history) = 2

\* C14: States are immutable: applying a tool to a State makes a new State
\* and leaves the State it was applied to as it was, so the fields of an
\* existing State object never change.
StatesImmutable ==
    [][\A o \in DOMAIN heap : heap'[o] = heap[o]]_vars

\* C13: two States are equal exactly when their four fields are equal,
\* equal States have equal hashes, and so a State equal to one that is in
\* CLOSED is found by the membership test.
ValueEquality ==
    (call.fn = "eq" /\ ret # <<>>) =>
        LET same == /\ call.s1.origin = call.s2.origin
                    /\ call.s1.destination = call.s2.destination
                    /\ call.s1.transport = call.s2.transport
                    /\ call.s1.booking_confirmed = call.s2.booking_confirmed
        IN /\ ret[1].eq <=> same
           /\ same => ret[1].h1 = ret[1].h2
           /\ (same /\ ~HashRaises(call.s1)) => ret[1].found = TRUE

ValueEqualityWitness ==
    /\ call.fn = "eq" /\ ret # <<>>
    /\ call.s1 = State("Oslo", None, "Oslo", TRUE)
    /\ ret[1].eq /\ ret[1].found = TRUE

\* C15: for any state and any oracle reply propose_tools returns at most
\* top_k entries, each names a registry tool whose precondition holds on
\* the state, and each prior lies in [0, 1].
RankingContract ==
    (call.fn = "propose_tools" /\ ret # <<>>) =>
        /\ Len(ret[1]) <= call.top_k
        /\ \A i \in 1..Len(ret[1]) :
              /\ InSeq(ret[1][i][1], registry)
              /\ precondition(ret[1][i][1], call.state)
              /\ ret[1][i][2] >= 0 /\ ret[1][i][2] <= 1000

RankingContractWitness ==
    /\ call.fn = "propose_tools" /\ ret # <<>>
    /\ call.reply.kind = "list"
    /\ call.reply.data = <<Item("set_origin", 1500)>>
    /\ ret[1] = <<<<"set_origin", 1000>>>>

\* C16: for any tool and any oracle reply or failure, every argument tuple
\* propose_args returns is as long as the tool's arg_names.
ArityContract ==
    (call.fn = "propose_args" /\ ret # <<>>) =>
        \A i \in 1..Len(ret[1]) : Len(ret[1][i]) = Len(arg_names(call.tool))

\* C17: for any tool and any oracle reply or failure propose_args returns
\* at most 3 tuples, and at least one when it takes the fallback path.
CandidateCount ==
    (call.fn = "propose_args" /\ ret # <<>>) =>
        /\ Len(ret[1]) <= 3
        /\ EvalArgs(call.reply) = <<>> => Len(ret[1]) >= 1

CandidateCountWitness ==
    /\ call.fn = "propose_args" /\ ret # <<>>
    /\ call.reply.kind = "error" /\ call.txt = FourCities
    /\ ret[1] = <<<<"Rome">>, <<"Oslo">>, <<"Lima">>>>

\* C18: for every oracle reply, also a number below 0 or above 1, the value
\* predict_success returns lies in [0, 1].
ProbabilityRange ==
    (call.fn = "predict_success" /\ ret # <<>>) =>
        ret[1] >= 0 /\ ret[1] <= 1000

\* C19: when the success oracle's call fails or its text is no number,
\* predict_success returns a value in [0.4, 0.9].
FallbackProbability ==
    (call.fn = "predict_success" /\ ret # <<>>
        /\ call.reply.kind \in {"error", "text"})
    => ret[1] >= 400 /\ ret[1] <= 900

FallbackProbabilityWitness ==
    /\ call.fn = "predict_success" /\ ret = <<900>>
    /\ call.reply.kind = "text"

\* C20: with every oracle call failing, a second run of Planner.astar on the
\* same initial state and goal text returns the plan the first run returned
FallbackDeterministic ==
    (runs = 2 /\ pc = "done") => result = prev_result[1]

\* C28: heuristic(state) is 0 on a goal state, else the least cost among the
\* registry tools whose precondition holds on the state, and 0 when none
\* holds; it is never negative.
HeuristicValue ==
    (call.fn = "heuristic" /\ ret # <<>>) =>
        LET s == call.state
            costs == {cost(registry[i]) : i \in {j \in 1..Len(registry) :
                                                   precondition(registry[j], s)}}
        IN /\ ret[1] >= 0
           /\ is_goal(s) => ret[1] = 0
           /\ (~is_goal(s) /\ costs = {}) => ret[1] = 0
           /\ (~is_goal(s) /\ costs # {}) =>
                 ret[1] \in costs /\ \A c \in costs : ret[1] <= c

HeuristicValueWitness ==
    /\ call.fn = "heuristic" /\ ret = <<10>>
    /\ call.state = State(None, "Oslo", None, FALSE)

\* C29: when the ranking oracle fails or gives no usable entry,
\* Planner.propose_tools ranks the applicable tools by the earliest missing
\* field, origin, destination, transport, confirmation: the first tool
\* returned is the applicable tool that fills the earliest of these fields.
EarliestMissingFirst ==
    (call.fn = "propose_tools" /\ ret # <<>> /\ call.variant = "viz"
        /\ ParseRanked(call.reply, Applicable(call.state)) = <<>>
        /\ Applicable(call.state) # <<>>)
    => LET fills == [t \in {"set_origin", "set_destination", "select_transport",
                            "confirm_booking"} |->
                        CASE t = "set_origin" -> 1
                          [] t = "set_destination" -> 2
                          [] t = "select_transport" -> 3
                          [] t = "confirm_booking" -> 4]
           applicable == {registry[i] : i \in {j \in 1..Len(registry) :
                                       precondition(registry[j], call.state)}}
       IN /\ ret[1] # <<>>
          /\ ret[1][1][1] \in applicable
          /\ \A t \in applicable : fills[ret[1][1][1]] <= fills[t]

EarliestMissingFirstWitness ==
    /\ call.fn = "propose_tools" /\ call.variant = "viz"
    /\ call.reply.kind = "error"
    /\ call.state = State("Oslo", None, "Oslo", FALSE)
    /\ call.top_k = TOP_K
    /\ ret = <<<<<<"set_destination", 740>>, <<"confirm_booking", 480>>>>>>

\* C30: with the sample registry astar ends, whatever the initial state and
\* the oracle's replies, after at most 5 pops: at most 4 expansions push a
\* successor before a plan is returned or an exception raised.
PopBound ==
    registry = TOOLS =>
        /\ pops <= 5
        /\ Cardinality(closed) <= 5
        /\ (pops = 5 /\ pc = "loop") => open_set = <<>>

PopBoundWitness ==
    /\ registry = TOOLS /\ pops = 5 /\ pc = "done" /\ Len(result) = 4

\* C27: every node in OPEN agrees with its plan: replaying node.plan from
\* the initial state gives exactly node.state, node.g is the sum of the costs
\* of the plan's tools, and the root has g = 0, an empty plan and
\* f = heuristic(initial_state).
NodeConsistency ==
    /\ \A i \in 1..Len(open_set) :
          LET n == open_set[i]
              r == Replay(n.plan, initial_state)
              sum[k \in 0..Len(n.plan)] ==
                  IF k = 0 THEN 0 ELSE sum[k - 1] + cost(n.plan[k][1])
          IN r.ok /\ r.state = n.state /\ n.g = sum[Len(n.plan)]
    /\ pops = 0 =>
          /\ Len(open_set) = 1
          /\ open_set[1].g = 0 /\ open_set[1].plan = <<>>
          /\ open_set[1].state = initial_state
          /\ open_set[1].f = [big |-> 0, int |-> heuristic(initial_state),
                              num |-> 0, den |-> 1]

NodeConsistencyWitness ==
    /\ Len(open_set) = 1 /\ Len(open_set[1].plan) = 3 /\ open_set[1].g = 32
    /\ initial_state = State(None, None, None, FALSE)

\* C25: an expansion pushes at most one node, so OPEN never holds more than
\* one node and is empty while a node is expanded; the search never
\* backtracks: once a popped node is discarded OPEN is empty and the next
\* pass fails with 'No plan found'; the order of OPEN by f never decides
\* which node is expanded.
SingleFrontier ==
    /\ [](/\ Len(open_set) <= 1
          /\ pc \in {"rank", "args", "prob", "eval"} => open_set = <<>>
          /\ open_set # <<>> => PopIndex(open_set) = 1)
    /\ [][(pc = "loop" /\ open_set = <<>>)
            => (pc' = "raised" /\ exc' = NoPlanFound)]_vars

SingleFrontierWitness ==
    /\ pc = "raised" /\ exc = NoPlanFound /\ pops = 3 /\ variant = "viz"
    /\ registry = TOOLS

\* C26: no state value is expanded twice in one search: a popped node whose
\* state is in CLOSED is discarded before the goal test and before any
\* oracle call, every other popped state is put into CLOSED, and CLOSED
\* only grows.
NoReexpansion ==
    [][/\ closed \subseteq closed'
       /\ pops' = pops + 1 =>
             /\ (node'.state \in closed) =>
                   /\ pc' = "loop" /\ closed' = closed
                   /\ result' = result /\ oracle_called' = oracle_called
             /\ (node'.state \notin closed /\ ~HashRaises(node'.state)) =>
                   closed' = closed \cup {node'.state}
       /\ (pc # "rank" /\ pc' = "rank") => node'.state \notin closed
       /\ (pc # "done" /\ pc' = "done") => node'.state \notin closed]_vars

\* a popped node found stale: its state was already in CLOSED
NoReexpansionWitness ==
    /\ pc = "loop" /\ pops = 2 /\ open_set = <<>> /\ node.state \in closed
    /\ Cardinality(closed) = 1 /\ Len(node.plan) = 1

\* C21: planner.astar is a subset of Planner.astar: every outcome of
\* planner.astar, a returned plan or a failure, is an outcome Planner.astar
\* has for the same initial state and goal text under some oracle replies;
\* so planner.astar fails only in the ways Planner.astar fails.
SingleWithinMulti ==
    (variant = "single" /\ pc = "raised") => exc \in VizFailures

\* C23: simulating the candidates never changes an existing State: the
\* popped node's state (which is in CLOSED and, for the root, is the
\* caller's initial_state) keeps its field values, every candidate's effect
\* works on a fresh copy, and no two candidates share a State object.
SimulationOnCopies ==
    /\ [][\A o \in DOMAIN heap : o \in DOMAIN heap' /\ heap'[o] = heap[o]]_vars
    /\ [](call.fn = "simulate" =>
            \A i \in 1..Len(ret) :
                /\ ret[i].sim_state # call.node
                /\ \A j \in 1..Len(ret) : i # j => ret[i].sim_state # ret[j].sim_state)

SimulationOnCopiesWitness ==
    /\ call.fn = "simulate" /\ Len(ret) = 3
    /\ heap[1] = State(None, None, None, FALSE)
    /\ heap[2].origin = "Paris" /\ heap[4].origin = "Paris"
    /\ ret[2].exc = "IndexError: tuple index out of range"

\* C24: in each expansion of Planner.astar the successor pushed is the one
\* of least f' = node.g + tool.cost + heuristic(successor) / combined_p over
\* the surviving (tool, args) candidates of all ranked tools together; on
\* equal f' the candidate evaluated first wins; its plan is node.plan +
\* [(tool, args)].  Stated on the running best: it is empty when the
\* expansion starts, it is kept from one ranked tool to the next, after each
\* tool it is the first candidate of least f' among the best before and the
\* tool's surviving candidates, and what is pushed at the end is that best.
GlobalBest ==
    /\ [](variant = "viz" /\ pc \in {"loop", "rank"} => best = <<>>)
    /\ [][variant = "viz" =>
            /\ (pc \in {"args", "prob"} /\ pc' \in {"args", "prob", "eval"})
                  => best' = best
            /\ open_set' # open_set /\ pc # "loop" => pc \in {"eval", "args"}
            /\ (pc = "args" /\ pc' = "loop") =>
                  open_set' = IF best = <<>> THEN open_set
                              ELSE Append(open_set,
                                     Node(best[1].f_new, best[1].g_new,
                                          best[1].sim_state, best[1].new_plan))
            /\ (pc = "eval" /\ pc' # "raised") =>
                  LET tool == tool_candidates[ti][1]
                      prior == tool_candidates[ti][2]
                      surv == {i \in 1..Min(Len(arg_candidates), Len(probs)) :
                                 ~CallRaises(tool, node.state, arg_candidates[i])}
                      succ(i) == Call(tool, node.state, arg_candidates[i])
                      F(i) == Plus(node.g + cost(tool),
                                   Quotient(heuristic(succ(i)),
                                            Max(EPSILON, probs[i] * prior * 1000)))
                      m == CHOOSE i \in surv :
                               /\ \A j \in surv : ~Less(F(j), F(i))
                               /\ \A j \in surv : j < i => Less(F(i), F(j))
                      mine == [f |-> F(m), g |-> node.g + cost(tool),
                               state |-> succ(m),
                               plan |-> Append(node.plan, <<tool, arg_candidates[m]>>)]
                      old == IF best = <<>> THEN <<>>
                             ELSE <<Node(best[1].f_new, best[1].g_new,
                                         best[1].sim_state, best[1].new_plan)>>
                      new == IF surv = {} THEN old
                             ELSE IF old = <<>> \/ Less(mine.f, old[1].f)
                             THEN <<mine>> ELSE old
                  IN IF pc' = "loop"
                     THEN open_set' = open_set \o new
                     ELSE /\ pc' = "args" /\ open_set' = open_set
                          /\ (new = <<>>) = (best' = <<>>)
                          /\ new # <<>> =>
                                new[1] = Node(best'[1].f_new, best'[1].g_new,
                                              best'[1].sim_state, best'[1].new_plan)]_vars

\* the second ranked tool is evaluated, with two surviving candidates of
\* equal probability, while the best so far comes from the first tool
GlobalBestWitness ==
    /\ variant = "viz" /\ pc = "eval" /\ ti = 2 /\ best # <<>>
    /\ best[1].tool = tool_candidates[1][1]
    /\ arg_candidates = <<<<None>>, <<"Paris">>>> /\ probs = <<900, 900>>

\* C22: OPEN, CLOSED and the nodes belong to one astar invocation. When two
\* invocations are interleaved at their oracle calls, the one that runs
\* leaves the locals of the suspended one as they are, the one that resumes
\* finds its OPEN, CLOSED and nodes as it left them, so each goes through
\* the states, and returns the plan, of a run alone with the same oracle
\* answers: here, with the oracle failing, each ends with a plan that
\* replays to a goal, and none fails.
InvocationsIsolated ==
    /\ [][/\ cur' = cur => other' = other
          /\ cur' # cur => (other' = <<Frame>> /\ Frame' = other[1])]_vars
    /\ [](other # <<>> =>
            (/\ pc # "raised" /\ other[1].pc # "raised"
             /\ pc = "done" => is_goal(Replay(result, initial_state).state)
             /\ other[1].pc = "done" =>
                   is_goal(Replay(other[1].result, other[1].initial_state).state)))

\* both invocations have returned, after the first was suspended between
\* its pops and the second ran meanwhile
InvocationsIsolatedWitness ==
    /\ other # <<>> /\ pc = "done" /\ other[1].pc = "done"
    /\ user_question = ToRome /\ other[1].user_question = FourCities
    /\ Len(result) = 4 /\ Len(other[1].result) = 4
    /\ result[1][2] = <<"Rome">> /\ other[1].result[2][2] = <<"Lima">>

\* C31: the sample registry has no dead end. On every State that is not
\* confirmed, whatever its other three fields hold, the precondition of at
\* least one tool of TOOLS holds, so propose_tools does not take its
\* "if not candidates" return, and Planner.propose_tools returns at least
\* one ranked tool.
NoDeadEnds ==
    (call.fn = "propose_tools" /\ ~call.state.booking_confirmed) =>
        /\ \E i \in 1..Len(TOOLS) : precondition(TOOLS[i], call.state)
        /\ Applicable(call.state) # <<>>
        /\ ~EarlyReturn(call.state)
        /\ (ret # <<>> /\ call.variant = "viz") => ret[1] # <<>>

\* propose_tools has returned on a state whose origin is the empty string
NoDeadEndsWitness ==
    /\ call.fn = "propose_tools" /\ call.variant = "viz" /\ ret # <<>>
    /\ call.state = State("", None, None, FALSE)
    /\ ret[1] # <<>> /\ ret[1][1][1] = "set_destination"

\* C32: run_plan on a plan of n steps whose preconditions all hold appends
\* exactly n rows, with Step = 1..n in plan order; row i holds the tool
\* name, the args and the four fields of the state after the first i steps,
\* and later steps never alter earlier rows. So run_plan does not stop at
\* a step whose precondition holds, and when it returns there is one row
\* per step.
TraceComplete ==
    /\ []((ex_pc = "raised" /\ ex_idx = Len(ex_plan)) =>
              ~precondition(ex_plan[ex_idx][1], heap[ex_state]))
    /\ [](ex_pc = "done" =>
              /\ Len(history) = Len(ex_plan)
              /\ \A i \in 1..Len(history) :
                    /\ history[i].Step = i
                    /\ history[i].Tool = ex_plan[i][1]
                    /\ history[i].Args = StrArgs(ex_plan[i][2]))
    /\ [][/\ \A i \in 1..Len(history) : history'[i] = history[i]
          /\ Len(history') > Len(history) =>
                /\ Len(history') = Len(history) + 1
                /\ history'[Len(history')] =
                      Row(Len(history) + 1, ex_plan[ex_idx][1],
                          ex_plan[ex_idx][2], heap'[ex_state])]_vars

\* C33: for any plan the planner returns, execute_generator yields one
\* "planner" event first, listing all steps; then one "step" event per plan
\* step, with index 1..total in plan order, each after its step was run;
\* then one "done" event, last, whose final_state is the snapshot of the
\* last step, with Confirmed = True. The generator does not fail between.
EventOrder ==
    LET total == Len(result)
    IN /\ events # <<>> =>
            /\ pc = "done"
            /\ events[1] = [event |-> "planner", question |-> user_question,
                            steps |-> PlanJson(result)]
            /\ \A i \in 1..total : events[1].steps[i].step = i
       /\ Len(events) <= total + 2
       /\ \A k \in 2..Len(events) :
            IF k <= total + 1
            THEN /\ events[k].event = "step"
                 /\ events[k].index = k - 1
                 /\ events[k].total = total
                 /\ events[k].tool = result[k - 1][1]
                 /\ events[k].args = result[k - 1][2]
                 /\ Len(history) >= k - 1
                 /\ events[k].state = history[k - 1]
                 /\ events[k].state.Step = k - 1
            ELSE /\ events[k].event = "done"
                 /\ events[k].total = total
                 /\ events[k].final_state = events[total + 1].state
                 /\ events[k].final_state.Confirmed = TRUE
       /\ be_pc # "raised"
       /\ be_pc = "done" => Len(events) = total + 2
       /\ (be_pc = "loop" /\ events # <<>>) => Len(events) = ex_idx

\* the whole stream of a four-step plan has been sent
EventOrderWitness ==
    /\ be_pc = "done" /\ Len(events) = 6
    /\ events[2].tool = "set_origin" /\ events[5].tool = "confirm_booking"
    /\ events[5].index = 4 /\ events[6].event = "done"

\* C34: in AgentExecutor.run, in hint and in no-hint mode and whatever the
\* model answers, the state changes only through a tool whose precondition
\* held: every trace entry with pre_ok = False or with an error has an
\* empty observation and a state_after equal to the state before its step,
\* and a step that changes the state records pre_ok = True and no error for
\* a tool whose precondition held on the state before.
GuardedStateChange ==
    /\ [](/\ ag_state = IF trace = <<>> THEN StartState
                        ELSE trace[Len(trace)].state_after
          /\ \A i \in 1..Len(trace) :
               (~trace[i].pre_ok \/ trace[i].error # None) =>
                   /\ trace[i].observation = {}
                   /\ trace[i].state_after =
                        IF i = 1 THEN StartState ELSE trace[i - 1].state_after)
    /\ [][ag_state' # ag_state =>
            /\ Len(trace') = Len(trace) + 1
            /\ trace'[Len(trace')].pre_ok
            /\ trace'[Len(trace')].error = None
            /\ precondition(trace'[Len(trace')].tool, ag_state)
            /\ trace'[Len(trace')].state_after = ag_state'
            /\ trace'[Len(trace')].observation # {}]_vars

\* hint mode: the model gave set_origin no argument, the tool raised, and
\* every later step of the plan was skipped for its precondition
GuardedStateChangeWitness ==
    /\ use_plan_hint /\ Len(trace) = 4
    /\ trace[1].tool = "set_origin" /\ trace[1].pre_ok
    /\ trace[1].error = Raised("IndexError: tuple index out of range")
    /\ ~trace[2].pre_ok /\ ~trace[4].pre_ok
    /\ ag_state = StartState

\* C35: in no-hint mode AgentExecutor.run ends with at most max_steps trace
\* entries, whatever the model answers. Every turn of the loop takes one
\* step, so step_idx counts the entries and grows until the loop ends; the
\* loop ends when booking_confirmed becomes true, when the model answers
\* STOP or text that json.loads rejects, or when max_steps steps were taken;
\* a step with an unknown tool or a failed precondition takes one step and
\* the loop goes on.
BoundedAgentLoop ==
    /\ []((~use_plan_hint) =>
            /\ Len(trace) <= max_steps
            /\ ag_idx = Len(trace)
            /\ \A i \in 1..Len(trace) : trace[i].step = i
            /\ ag_pc = "done" =>
                 \/ ag_state.booking_confirmed
                 \/ (trace # <<>> /\ trace[Len(trace)].tool = "STOP")
                 \/ Len(trace) = max_steps)
    /\ [][(~use_plan_hint /\ ag_pc = "loop") =>
            /\ (ag_idx' = ag_idx + 1 /\ Len(trace') = Len(trace) + 1)
               \/ (ag_pc' = "done" /\ trace' = trace
                   /\ (ag_idx = max_steps \/ ag_state.booking_confirmed))
            /\ Len(trace') > Len(trace) =>
                 LET lastNew == trace'[Len(trace')]
                 IN /\ (lastNew.tool = "STOP" \/ ag_state'.booking_confirmed)
                          <=> ag_pc' = "done"
                    /\ lastNew.error \in {"Unknown tool", "Precondition failed"}
                          => (ag_pc' = "loop" /\ ag_state' = ag_state)]_vars

\* max_steps steps were taken without a booking: an unknown tool, a tool
\* whose precondition fails, and two steps that set a field
BoundedAgentLoopWitness ==
    /\ ~use_plan_hint /\ ag_pc = "done" /\ max_steps = MaxSteps
    /\ Len(trace) = MaxSteps /\ ~ag_state.booking_confirmed
    /\ trace[1].error = "Unknown tool"
    /\ trace[2].error = "Precondition failed"
    /\ trace[3].error = None /\ trace[MaxSteps].tool # "STOP"

\* C36: in no-hint mode DummyLLM picks at every step the first applicable
\* tool of the AVAILABLE TOOLS list, with its default args, so a run of
\* AgentExecutor(DummyLLM(), use_plan_hint=False) with room for four steps
\* executes set_origin, set_destination, select_transport, confirm_booking
\* in that order and ends with booking_confirmed = True.
DummyBooksTrip ==
    (~use_plan_hint /\ llm = "dummy" /\ max_steps >= Len(TOOLS)) =>
        /\ \A i \in 1..Len(trace) :
             /\ i <= Len(TOOLS)
             /\ trace[i].tool = TOOLS[i]
             /\ trace[i].pre_ok /\ trace[i].error = None
        /\ ag_pc = "done" =>
             /\ Len(trace) = Len(TOOLS)
             /\ ag_state.booking_confirmed

\* C37: during one astar run on a new Planner the log stays aligned with
\* the search depth. The k-th begin_step call has step index k - 1, so
\* steps[i]["step"] = i for every entry; log_tool and set_choice write to
\* the entry begun for the node that is expanded, so the choice kept in
\* entry i is step i of every plan that grows from it; mark_executed(i) in
\* main marks the entry of plan step i; no log call fails for a missing
\* entry.
LogAligned ==
    /\ [](/\ \A i \in 1..Len(steps) : steps[i].step = i - 1
          /\ pc \in {"args", "prob", "eval"} =>
               /\ Len(steps) = Len(node.plan) + 1
               /\ steps[Len(steps)].step = StepIndex(node)
               /\ steps[Len(steps)].chosen = <<>>
               /\ \A j \in 1..Len(steps[Len(steps)].tools) :
                    /\ j <= Len(tool_candidates)
                    /\ steps[Len(steps)].tools[j] = tool_candidates[j][1]
          /\ \A n \in 1..Len(open_set) : \A i \in 1..Len(open_set[n].plan) :
               /\ i <= Len(steps)
               /\ steps[i].chosen = <<[tool |-> open_set[n].plan[i][1],
                                       args |-> open_set[n].plan[i][2]]>>
               /\ InSeq(steps[i].chosen[1].tool, steps[i].tools)
          /\ pc = "done" =>
               /\ Len(steps) = Len(result)
               /\ \A i \in 1..Len(result) :
                    /\ steps[i].chosen = <<[tool |-> result[i][1],
                                            args |-> result[i][2]]>>
                    /\ steps[i].executed <=> (ex_pc # "idle" /\ i <= ex_idx)
          /\ pc # "done" => \A i \in 1..Len(steps) : ~steps[i].executed
          /\ exc # "IndexError: list index out of range"
          /\ ex_exc # "IndexError: list index out of range")
    /\ [][Len(steps') > Len(steps) =>
            /\ Len(steps') = Len(steps) + 1
            /\ steps'[Len(steps')].step = Len(steps)
            /\ \A i \in 1..Len(steps) : steps'[i] = steps[i]]_vars

\* main has executed a four-step plan: four entries, each with the tools
\* logged for it, its choice and its executed mark
LogAlignedWitness ==
    /\ ex_pc = "done" /\ pc = "done" /\ Len(result) = 4 /\ Len(steps) = 4
    /\ \A i \in 1..4 : steps[i].executed /\ steps[i].tools # <<>>
    /\ steps[4].step = 3 /\ steps[4].chosen[1].tool = "confirm_booking"

====
